---- MODULE Spec2Model ----
(***************************************************************************)
(* A model of the hakoniwa terrain / water sandbox core:                   *)
(*   grid utilities, the water flow solver (stepWater, totalWater,         *)
(*   sampleCellWaterDiagnostics), the terrain brush (applyBrush), the      *)
(*   procedural world generator (createInitialWorld), the persistence      *)
(*   layer (serializeWorld, deserializeWorld, save and load slots), and    *)
(*   the host in main.ts: the HUD and keyboard events with their modes,    *)
(*   the climate (createClimateState, applyRainfall), the humidity field   *)
(*   (seedHumidityFromWorld, updateHumidity), the frame loop (animate),    *)
(*   vegetation placement (updateVegetation of the renderer and            *)
(*   sampleVegetationCellDiagnostics), and the pointer events of the       *)
(*   InputController.                                                      *)
(*                                                                         *)
(* Numbers.  A JavaScript number is modelled as an exact rational <<n, d>> *)
(* in lowest terms with d > 0.  <<0, 0>> is NaN (the result of 0/0, which  *)
(* every arithmetic operation propagates and every comparison rejects).    *)
(* <<0, -1>> stands for an optional field that is absent (undefined).      *)
(* Float32Array storage rounding is not modelled: solver and brush         *)
(* arithmetic is exact.  The generator, whose code calls Math.sin,         *)
(* Math.exp, Math.pow and Math.sqrt, is computed in fixed point, and so    *)
(* are the sine signals of the climate.                                    *)
(***************************************************************************)
EXTENDS Integers, Sequences, FiniteSets, TLC

VARIABLES
  size,      \* WorldState.size
  terrain,   \* WorldState.terrain : 0..size*size-1 -> number
  water,     \* WorldState.water   : 0..size*size-1 -> number
  sources,   \* WorldState.sources : sequence of WaterSource records
  terrainSeed,    \* WorldState.terrainSeed
  vegetationSeed, \* WorldState.vegetationSeed
  generatedTerrains, \* generateBaseTerrain results already computed: <<size, seed>> -> terrain
  scratchByLength, \* core/water module cache: array length -> delta buffer
  simParams, \* the SimParams object the host hands to every stepWater call
  waterAtStart, \* the water field the run began with
  toolMode,  \* the active ToolMode
  brush,     \* the BrushSettings object
  version,   \* WorldState.version
  time,      \* WorldState.time, the simulation clock in seconds
  slots,     \* the IndexedDB object store 'slots': slot number -> serialized world
  sourceIdCounter, \* main.ts: the number the next 'source-N' id is built from
  interactionMode, \* main.ts: 'edit' or 'camera'
  debugMode,       \* main.ts: debug mode on / off
  dayCycleMode,    \* main.ts: 'simulation' or 'manual'
  weatherMode,     \* main.ts: 'simulation' or 'manual'
  windMode,        \* main.ts: 'simulation' or 'manual'
  photoMode,       \* main.ts: photo mode on / off
  interactionModeBeforePhoto, \* main.ts: the mode setPhotoModeEnabled saved
  hud,             \* the Hud object: its state and the flags of its DOM elements
  modeAtPhotoEntry, \* history: interactionMode at the moment photo mode was last entered
  manualRainIntensity, \* main.ts: the rain intensity of the manual weather override
  accumulator,     \* main.ts: frame time not yet consumed by fixed steps
  climateState,    \* main.ts: the ClimateState of the last createClimateState call
  humidityMap,     \* main.ts: the current humidity buffer, the one the renderer reads
  humidityScratch, \* main.ts: the buffer the diffusion pass writes
  humidityStepCounter, \* main.ts: the counter updateHumidity keeps
  humidityCalls,   \* history: updateHumidity calls made since start or since the last
                   \* load that installed a world
  isPainting,      \* InputController.isPainting: a drag with the left button is going on
  call,      \* the most recent call: its name, arguments, intermediate values and result
  steps      \* number of calls made so far

\* the world's remaining fields, the save slots and the source id counter of the host
storeVars == <<version, time, slots, sourceIdCounter>>

\* the modes of the host and the HUD that shows them
uiVars == <<interactionMode, debugMode, dayCycleMode, weatherMode, windMode, photoMode,
            interactionModeBeforePhoto, hud, modeAtPhotoEntry>>

\* the state of the frame loop, and with it that of the pointer controller
humidityVars == <<humidityMap, humidityScratch, humidityStepCounter>>
frameVars == <<manualRainIntensity, accumulator, climateState, humidityVars, humidityCalls>>
loopVars == <<frameVars, isPainting>>

\* the host (main.ts) state beyond the tool, the brush and the parameters
hostVars == <<storeVars, uiVars, loopVars>>

vars == <<size, terrain, water, sources, terrainSeed, vegetationSeed, generatedTerrains,
          scratchByLength, simParams, waterAtStart,
          toolMode, brush, hostVars, call, steps>>

----------------------------------------------------------------------------
(* Rational arithmetic                                                     *)

NaN == <<0, 0>>
Undefined == <<0, -1>>
Infinity == <<1, 0>>

Abs(n) == IF n < 0 THEN -n ELSE n

RECURSIVE GCD(_, _)
GCD(a, b) == IF b = 0 THEN a ELSE GCD(b, a % b)

Rat(n, d) ==
  IF d = 0 THEN NaN
  ELSE LET g == GCD(Abs(n), Abs(d))
       IN IF d < 0 THEN <<(-n) \div g, (-d) \div g>> ELSE <<n \div g, d \div g>>

Num(n) == <<n, 1>>
Zero == <<0, 1>>
One == <<1, 1>>

IsNaN(a) == a[2] = 0
\* the operations reduce by common factors before they multiply, to keep the integers small
RAdd(a, b) ==
  IF a[2] = 0 \/ b[2] = 0 THEN NaN
  ELSE LET g == GCD(a[2], b[2])
       IN Rat(a[1] * (b[2] \div g) + b[1] * (a[2] \div g), (a[2] \div g) * b[2])
RNeg(a) == <<-a[1], a[2]>>
RSub(a, b) == RAdd(a, RNeg(b))
RMul(a, b) ==
  IF a[2] = 0 \/ b[2] = 0 THEN NaN
  ELSE LET g1 == GCD(Abs(a[1]), b[2])
           g2 == GCD(Abs(b[1]), a[2])
       IN Rat((a[1] \div g1) * (b[1] \div g2), (a[2] \div g2) * (b[2] \div g1))
RDiv(a, b) ==
  IF a[2] = 0 \/ b[2] = 0 \/ b[1] = 0 THEN NaN
  ELSE RMul(a, IF b[1] < 0 THEN <<-b[2], -b[1]>> ELSE <<b[2], b[1]>>)
RLt(a, b) ==
  /\ a[2] > 0
  /\ b[2] > 0
  /\ LET g == GCD(a[2], b[2]) IN a[1] * (b[2] \div g) < b[1] * (a[2] \div g)
RLe(a, b) ==
  /\ a[2] > 0
  /\ b[2] > 0
  /\ LET g == GCD(a[2], b[2]) IN a[1] * (b[2] \div g) <= b[1] * (a[2] \div g)
RGt(a, b) == RLt(b, a)
RGe(a, b) == RLe(b, a)
RAbs(a) == <<Abs(a[1]), a[2]>>

\* Math.max / Math.min: NaN if either argument is NaN
MathMax(a, b) == IF IsNaN(a) \/ IsNaN(b) THEN NaN ELSE IF RLt(a, b) THEN b ELSE a
MathMin(a, b) == IF IsNaN(a) \/ IsNaN(b) THEN NaN ELSE IF RLt(b, a) THEN b ELSE a

\* Math.floor, Math.ceil, Math.round (half up) of a rational, as integers
MathFloor(a) == a[1] \div a[2]
MathCeil(a) == -((-a[1]) \div a[2])
MathRound(a) == (2 * a[1] + a[2]) \div (2 * a[2])

\* value ?? fallback
Coalesce(v, fallback) == IF v = Undefined THEN fallback ELSE v

----------------------------------------------------------------------------
(* Grid utilities  (core/grid)                                             *)

clamp(value, min, max) == MathMin(max, MathMax(min, value))

toIndex(sz, x, y) == y * sz + x

\* mutant: the upper bound on x is not checked
inBounds_NoUpperX(sz, x, y) == x >= 0 /\ y >= 0 /\ y < sz

inBounds(sz, x, y) == x >= 0 /\ x < sz /\ y >= 0 /\ y < sz

Cells(sz) == 0 .. (sz * sz - 1)

\* reading a typed array outside its range yields undefined, which arithmetic turns into NaN
ReadAt(arr, i) == IF i \in DOMAIN arr THEN arr[i] ELSE NaN

\* writing a typed array outside its range is ignored
WriteAt(arr, i, v) == IF i \in DOMAIN arr THEN [arr EXCEPT ![i] = v] ELSE arr

----------------------------------------------------------------------------
(* Water flow solver  (core/water)                                         *)

DT_FLOOR == Rat(1, 10000)   \* 0.0001

ZeroArray(length) == [i \in 0 .. (length - 1) |-> Zero]

\* getScratch: the cached buffer of this length zero-filled, or a fresh zero buffer
getScratch(cache, length) ==
  IF length \in DOMAIN cache
    THEN [i \in DOMAIN cache[length] |-> Zero]
    ELSE ZeroArray(length)

\* mutant: the source's coordinates are swapped when its cell index is computed
RECURSIVE injectSources_Swapped(_, _, _, _, _)
injectSources_Swapped(w, srcs, k, sz, dt) ==
  IF k > Len(srcs) THEN w
  ELSE LET source == srcs[k]
           sx == MathRound(Num(source.x))
           sy == MathRound(Num(source.y))
           sourceIndex == toIndex(sz, sy, sx)
           next == IF ~source.active THEN w
                   ELSE IF ~inBounds(sz, sx, sy) THEN w
                   ELSE WriteAt(w, sourceIndex,
                          RAdd(ReadAt(w, sourceIndex), RMul(MathMax(Zero, source.rate), dt)))
       IN injectSources_Swapped(next, srcs, k + 1, sz, dt)

\* lines 56-69: one pass over state.sources, in list order
RECURSIVE injectSources(_, _, _, _, _)
injectSources(w, srcs, k, sz, dt) ==
  IF k > Len(srcs) THEN w
  ELSE LET source == srcs[k]
           sx == MathRound(Num(source.x))
           sy == MathRound(Num(source.y))
           sourceIndex == toIndex(sz, sx, sy)
           next == IF ~source.active THEN w
                   ELSE IF ~inBounds(sz, sx, sy) THEN w
                   ELSE WriteAt(w, sourceIndex,
                          RAdd(ReadAt(w, sourceIndex), RMul(MathMax(Zero, source.rate), dt)))
       IN injectSources(next, srcs, k + 1, sz, dt)

\* mutant: water is pushed towards a higher neighbour as well
neighborPotential_Uphill(w, t, totalHeight, exists, nIndex, flowRate, dt) ==
  IF ~exists THEN Zero
  ELSE RMul(RMul(RAbs(RSub(totalHeight, RAdd(t[nIndex], w[nIndex]))), flowRate), dt)

\* lines 93-123: the potential towards one neighbour (0 when it does not exist)
neighborPotential(w, t, totalHeight, exists, nIndex, flowRate, dt) ==
  IF ~exists THEN Zero
  ELSE LET diff == RSub(totalHeight, RAdd(t[nIndex], w[nIndex]))
       IN IF RGt(diff, Zero) THEN RMul(RMul(diff, flowRate), dt) ELSE Zero

\* mutant: the outflow is not scaled to the water the cell holds
outflowScale_Unscaled(currentWater, totalPotential) == One

\* line 130
outflowScale(currentWater, totalPotential) ==
  MathMin(One, RDiv(currentWater, totalPotential))

\* lines 75-154 for one cell: the transfers <<right, left, up, down>> it makes,
\* each [to |-> neighbour index or -1, amount |-> water moved]; <<>> when the cell is skipped
cellTransfers(w, t, sz, x, y, flowRate, dt) ==
  LET index == toIndex(sz, x, y)
      currentWater == w[index]
      totalHeight == RAdd(t[index], currentWater)
      rightIndex == IF x + 1 < sz THEN toIndex(sz, x + 1, y) ELSE -1
      leftIndex == IF x - 1 >= 0 THEN toIndex(sz, x - 1, y) ELSE -1
      upIndex == IF y + 1 < sz THEN toIndex(sz, x, y + 1) ELSE -1
      downIndex == IF y - 1 >= 0 THEN toIndex(sz, x, y - 1) ELSE -1
      rightPotential == neighborPotential(w, t, totalHeight, x + 1 < sz, rightIndex, flowRate, dt)
      leftPotential == neighborPotential(w, t, totalHeight, x - 1 >= 0, leftIndex, flowRate, dt)
      upPotential == neighborPotential(w, t, totalHeight, y + 1 < sz, upIndex, flowRate, dt)
      downPotential == neighborPotential(w, t, totalHeight, y - 1 >= 0, downIndex, flowRate, dt)
      totalPotential == RAdd(RAdd(RAdd(rightPotential, leftPotential), upPotential), downPotential)
      scale == outflowScale(currentWater, totalPotential)
      move(potential, nIndex) ==
        IF RGt(potential, Zero) /\ nIndex >= 0
          THEN [to |-> nIndex, amount |-> RMul(potential, scale)]
          ELSE [to |-> -1, amount |-> Zero]
  IN IF RLe(currentWater, Zero) THEN <<>>
     ELSE IF RLe(totalPotential, Zero) THEN <<>>
     ELSE <<move(rightPotential, rightIndex), move(leftPotential, leftIndex),
            move(upPotential, upIndex), move(downPotential, downIndex)>>

\* mutant: the receiving cell is credited but the sending cell is not debited
RECURSIVE applyTransfers_NoDebit(_, _, _, _)
applyTransfers_NoDebit(delta, index, transfers, k) ==
  IF k > Len(transfers) THEN delta
  ELSE LET tr == transfers[k]
           d2 == IF tr.to < 0 THEN delta
                 ELSE [delta EXCEPT ![tr.to] = RAdd(delta[tr.to], tr.amount)]
       IN applyTransfers_NoDebit(d2, index, transfers, k + 1)

\* lines 132-154: delta[index] -= amount; delta[to] += amount, for each transfer in turn
RECURSIVE applyTransfers(_, _, _, _)
applyTransfers(delta, index, transfers, k) ==
  IF k > Len(transfers) THEN delta
  ELSE LET tr == transfers[k]
           d1 == IF tr.to < 0 THEN delta
                 ELSE [delta EXCEPT ![index] = RSub(delta[index], tr.amount)]
           d2 == IF tr.to < 0 THEN d1
                 ELSE [d1 EXCEPT ![tr.to] = RAdd(d1[tr.to], tr.amount)]
       IN applyTransfers(d2, index, transfers, k + 1)

\* lines 73-156: the outflow pass, cells visited in row-major order from `index` on;
\* water and terrain are read only, every transfer goes to delta
RECURSIVE outflowPass(_, _, _, _, _, _, _)
outflowPass(delta, w, t, sz, index, flowRate, dt) ==
  IF index >= sz * sz THEN delta
  ELSE LET x == index % sz
           y == index \div sz
       IN outflowPass(applyTransfers(delta, index, cellTransfers(w, t, sz, x, y, flowRate, dt), 1),
                      w, t, sz, index + 1, flowRate, dt)

\* mutant: only the near edges count as border
isEdgeCell_NearOnly(sz, x, y) == x = 0 \/ y = 0

\* line 168
isEdgeCell(sz, x, y) == x = 0 \/ y = 0 \/ x = sz - 1 \/ y = sz - 1

\* mutant: the final floor at 0 is missing
floorAtZero_Missing(next) == next

\* line 173
floorAtZero(next) == MathMax(Zero, next)

\* mutant: the edge drain is added instead of subtracted
edgeDrained_Added(next, edgeDrain, dt) == RAdd(next, RMul(edgeDrain, dt))

\* line 170: next -= edgeDrain * dt
edgeDrained(next, edgeDrain, dt) == RSub(next, RMul(edgeDrain, dt))

\* lines 165-166: the cell's water after damping, evaporation and seepage
afterLosses(withFlow, dampingFactor, evaporationLoss, seepage, dt) ==
  RSub(RSub(RMul(withFlow, dampingFactor), evaporationLoss), RMul(RMul(withFlow, seepage), dt))

\* lines 164-173 for one cell
nextWater(withFlow, sz, x, y, dampingFactor, evaporationLoss, seepage, edgeDrain, dt) ==
  LET next0 == afterLosses(withFlow, dampingFactor, evaporationLoss, seepage, dt)
      next == IF isEdgeCell(sz, x, y) /\ RGt(next0, Zero)
                THEN edgeDrained(next0, edgeDrain, dt)
                ELSE next0
  IN floorAtZero(next)

\* lines 164-173 without the `next > 0` guard: the edge drain is subtracted on every
\* border cell before the floor at 0
nextWaterUnguarded(withFlow, sz, x, y, dampingFactor, evaporationLoss, seepage, edgeDrain, dt) ==
  LET next0 == afterLosses(withFlow, dampingFactor, evaporationLoss, seepage, dt)
      next == IF isEdgeCell(sz, x, y)
                THEN edgeDrained(next0, edgeDrain, dt)
                ELSE next0
  IN floorAtZero(next)

\* lines 49-50 and 196-197: the guarded time step and flow rate
stepDt(params) == MathMax(DT_FLOOR, params.dt)
stepFlowRate(params) == MathMax(Zero, params.flowRate)

\* stepWater(state, params): the new water field with the intermediate values of the tick
stepWater(sz, t, w, srcs, cache, params) ==
  LET dt == stepDt(params)
      flowRate == stepFlowRate(params)
      damping == MathMax(Zero, params.damping)
      evaporation == MathMax(Zero, params.evaporation)
      seepage == MathMax(Zero, Coalesce(params.seepage, Zero))
      edgeDrain == MathMax(Zero, Coalesce(params.edgeDrain, Zero))
      injected == injectSources(w, srcs, 1, sz, dt)
      delta == outflowPass(getScratch(cache, sz * sz), injected, t, sz, 0, flowRate, dt)
      dampingFactor == clamp(RSub(One, RMul(damping, dt)), Zero, One)
      evaporationLoss == RMul(evaporation, dt)
      withFlow == [i \in Cells(sz) |-> RAdd(injected[i], delta[i])]
  IN [ water |-> [i \in Cells(sz) |->
                    nextWater(withFlow[i], sz, i % sz, i \div sz, dampingFactor,
                              evaporationLoss, seepage, edgeDrain, dt)],
       injected |-> injected,
       delta |-> delta,
       withFlow |-> withFlow ]

RECURSIVE SumFrom(_, _, _)
SumFrom(arr, index, total) ==
  IF index \notin DOMAIN arr THEN total
  ELSE SumFrom(arr, index + 1, RAdd(total, arr[index]))

\* totalWater(state)
totalWater(w) == SumFrom(w, 0, Zero)

\* the value null, for a result and for the total height of a neighbour that does not exist
Null == [null |-> TRUE]
NullNumber == Undefined

\* lines 211-220: a neighbour's total height (null without neighbour) and the downhill drop
neighborTotal(t, w, nIndex) ==
  IF nIndex = -1 THEN NullNumber ELSE RAdd(ReadAt(t, nIndex), ReadAt(w, nIndex))

downhillDiff(totalHeight, nTotal) ==
  IF nTotal = NullNumber THEN Zero ELSE MathMax(Zero, RSub(totalHeight, nTotal))

\* sampleCellWaterDiagnostics(state, params, x, y)
sampleCellWaterDiagnostics(sz, t, w, params, x, y) ==
  IF ~inBounds(sz, x, y) THEN Null
  ELSE
    LET dt == stepDt(params)
        flowRate == stepFlowRate(params)
        seepage == MathMax(Zero, Coalesce(params.seepage, Zero))
        edgeDrain == MathMax(Zero, Coalesce(params.edgeDrain, Zero))
        index == toIndex(sz, x, y)
        terrainHeight == ReadAt(t, index)
        waterHeight == ReadAt(w, index)
        totalHeight == RAdd(terrainHeight, waterHeight)
        rightTotal == neighborTotal(t, w, IF x + 1 < sz THEN toIndex(sz, x + 1, y) ELSE -1)
        leftTotal == neighborTotal(t, w, IF x - 1 >= 0 THEN toIndex(sz, x - 1, y) ELSE -1)
        upTotal == neighborTotal(t, w, IF y + 1 < sz THEN toIndex(sz, x, y + 1) ELSE -1)
        downTotal == neighborTotal(t, w, IF y - 1 >= 0 THEN toIndex(sz, x, y - 1) ELSE -1)
        rightDiff == downhillDiff(totalHeight, rightTotal)
        leftDiff == downhillDiff(totalHeight, leftTotal)
        upDiff == downhillDiff(totalHeight, upTotal)
        downDiff == downhillDiff(totalHeight, downTotal)
        isEdge == isEdgeCell(sz, x, y)
    IN [ x |-> x, y |-> y, index |-> index, isEdge |-> isEdge,
         terrainHeight |-> terrainHeight, waterHeight |-> waterHeight,
         totalHeight |-> totalHeight,
         neighborTotalHeights |->
           [right |-> rightTotal, left |-> leftTotal, up |-> upTotal, down |-> downTotal],
         downhillDiffs |->
           [right |-> rightDiff, left |-> leftDiff, up |-> upDiff, down |-> downDiff],
         outflowPotentials |->
           [right |-> RMul(RMul(rightDiff, flowRate), dt),
            left |-> RMul(RMul(leftDiff, flowRate), dt),
            up |-> RMul(RMul(upDiff, flowRate), dt),
            down |-> RMul(RMul(downDiff, flowRate), dt)],
         seepageLossPerStep |-> RMul(RMul(waterHeight, seepage), dt),
         edgeDrainLossPerStep |-> IF isEdge THEN RMul(edgeDrain, dt) ELSE Zero ]

----------------------------------------------------------------------------
(* Terrain brush  (core/terrain)                                           *)

WORLD_VERSION == 1
MIN_TERRAIN_HEIGHT == -12
MAX_TERRAIN_HEIGHT == 24

SqrtResolution == 16   \* Math.sqrt is computed to the nearest lower multiple of 1/SqrtResolution

\* the largest r in lo .. hi with r*r <= n
RECURSIVE ISqrtIn(_, _, _)
ISqrtIn(n, lo, hi) ==
  IF lo >= hi THEN lo
  ELSE LET step[mid \in Int] ==
             IF mid * mid <= n THEN ISqrtIn(n, mid, hi) ELSE ISqrtIn(n, lo, mid - 1)
       IN step[(lo + hi + 1) \div 2]

ISqrt(n) ==
  LET root[m \in Int] == ISqrtIn(m, 0, IF m < 46340 THEN m ELSE 46340)
  IN root[n]

\* Math.sqrt of a rational >= 0
MathSqrt(a) ==
  IF a[2] = 0 \/ a[1] < 0 THEN NaN
  ELSE Rat(ISqrt((a[1] * SqrtResolution * SqrtResolution) \div a[2]), SqrtResolution)

\* mutant: the new height is stored without the clamp to the terrain bounds
clampHeight_Missing(next) == next

\* line 46
clampHeight(next) == clamp(next, Num(MIN_TERRAIN_HEIGHT), Num(MAX_TERRAIN_HEIGHT))

\* mutant: flatten moves the height away from the target
brushedHeight_Away(current, influence, tool, flattenHeight) ==
  IF tool = "raise" THEN RAdd(current, influence)
  ELSE IF tool = "lower" THEN RSub(current, influence)
  ELSE IF tool = "flatten" THEN RSub(current, RMul(RSub(flattenHeight, current), influence))
  ELSE current

\* lines 37-44
brushedHeight(current, influence, tool, flattenHeight) ==
  IF tool = "raise" THEN RAdd(current, influence)
  ELSE IF tool = "lower" THEN RSub(current, influence)
  ELSE IF tool = "flatten" THEN RAdd(current, RMul(RSub(flattenHeight, current), influence))
  ELSE current

\* lines 25-46 for the cell (x, y): acc = [terrain, touched], touched the indices accessed
brushCell(acc, sz, x, y, cx, cy, radius, strength, tool, flattenHeight) ==
  LET dx == RSub(Num(x), cx)
      dy == RSub(Num(y), cy)
      distance == MathSqrt(RAdd(RMul(dx, dx), RMul(dy, dy)))
      falloff == RSub(One, RDiv(distance, radius))
      influence == RMul(falloff, strength)
      index == toIndex(sz, x, y)
      current == ReadAt(acc.terrain, index)
      next == brushedHeight(current, influence, tool, flattenHeight)
  IN IF RGt(distance, radius) THEN acc
     ELSE [terrain |-> WriteAt(acc.terrain, index, clampHeight(next)),
           touched |-> acc.touched \cup {index}]

\* lines 23-48: for y = minY..maxY, for x = minX..maxX
RECURSIVE brushLoop(_, _, _, _, _, _, _, _, _, _, _, _, _)
brushLoop(acc, sz, x, y, minX, maxX, maxY, cx, cy, radius, strength, tool, flattenHeight) ==
  IF y > maxY \/ minX > maxX THEN acc
  ELSE IF x > maxX
    THEN brushLoop(acc, sz, minX, y + 1, minX, maxX, maxY, cx, cy, radius, strength, tool,
                   flattenHeight)
    ELSE brushLoop(brushCell(acc, sz, x, y, cx, cy, radius, strength, tool, flattenHeight),
                   sz, x + 1, y, minX, maxX, maxY, cx, cy, radius, strength, tool, flattenHeight)

Max(a, b) == IF a > b THEN a ELSE b
Min(a, b) == IF a < b THEN a ELSE b

\* applyBrush(state, cx, cy, tool, brush): the new terrain and the indices accessed
applyBrush(sz, t, cx, cy, tool, b) ==
  IF tool = "waterSource" THEN [terrain |-> t, touched |-> {}]
  ELSE LET radius == MathMax(One, b.radius)
           strength == clamp(b.strength, Rat(1, 100), One)
           minX == Max(0, MathFloor(RSub(cx, radius)))
           maxX == Min(sz - 1, MathCeil(RAdd(cx, radius)))
           minY == Max(0, MathFloor(RSub(cy, radius)))
           maxY == Min(sz - 1, MathCeil(RAdd(cy, radius)))
       IN brushLoop([terrain |-> t, touched |-> {}], sz, minX, minY, minX, maxX, maxY,
                    cx, cy, radius, strength, tool, b.flattenHeight)

Brush(radius, strength, flattenHeight) ==
  [radius |-> radius, strength |-> strength, flattenHeight |-> flattenHeight]

\* main.ts: the brush the application starts with
DefaultBrush == Brush(Num(7), Rat(27, 100), Zero)

----------------------------------------------------------------------------
(* Procedural world generator  (core/world)                                *)
(*                                                                         *)
(* Heights are computed in fixed point: an integer v stands for the number *)
(* v / FixedOne.  Math.sin, Math.exp, Math.pow(., 1.35) and Math.sqrt are  *)
(* replaced by fixed-point approximations with the same sign, range and    *)
(* zeros; a store into the Float32Array rounds down to the fixed-point     *)
(* grid.  A NaN operand makes every one of these operations NaN.           *)
(* A value that the code computes once and reads several times is bound    *)
(* as the argument of a local function, LET f[v \in Int] == ... IN f[e].   *)

FixedOne == 1000

\* the literal n/d in fixed point
Dec(n, d) == (n * FixedOne) \div d

\* k * (n/d) for an integer k, in fixed point
MulDec(k, n, d) == ((k * n) \div d) * FixedOne + (((k * n) % d) * FixedOne) \div d

FMul(a, b) == (a * b) \div FixedOne
FDiv(a, b) == (a * FixedOne) \div b

\* Math.PI
PI == Dec(31416, 10000)

\* Math.sin (Bhaskara's rational approximation on each half period)
MathSin(angle) ==
  LET sine[r \in Int] ==
        LET half == IF r < PI THEN r ELSE r - PI
            p == FMul(half, PI - half)
            s == (16 * p * FixedOne) \div (5 * FMul(PI, PI) - 4 * p)
        IN IF r < PI THEN s ELSE -s
  IN sine[angle % (2 * PI)]

\* Math.exp(-u) for u >= 0
MathExpNeg(u) ==
  LET exp[v \in Int] ==
        IF v >= 10 * FixedOne THEN 0
        ELSE FDiv(FixedOne, FixedOne + v + FMul(v, v) \div 2 + FMul(FMul(v, v), v) \div 6)
  IN exp[u]

\* Math.sqrt of a fixed-point number >= 0
FSqrt(v) == ISqrt(v * FixedOne)

\* Math.pow(r, 1.35) for 0 <= r <= 1
MathPow135(r) ==
  LET pow[v \in Int] == (3 * v + 7 * FMul(v, FSqrt(v))) \div 10
  IN pow[r]

\* lines 2924-2926
fract(value) == value % FixedOne

\* lines 2928-2931; x and y are lattice integers
hash2D(x, y, seed) ==
  LET scaled[s \in Int] == fract(s * 43758 + (s * 5453) \div 10000)
  IN scaled[MathSin(MulDec(x, 1271, 10) + MulDec(y, 3117, 10) + MulDec(seed, 137, 100000))]

\* lines 2933-2935
smoothstep(t) == FMul(FMul(t, t), 3 * FixedOne - 2 * t)

\* lines 2937-2957
valueNoise(x, y, seed) ==
  LET noise[px \in Int, py \in Int, ps \in Int] ==
        LET x0 == px \div FixedOne
            y0 == py \div FixedOne
            x1 == x0 + 1
            y1 == y0 + 1
            tx == px - x0 * FixedOne
            ty == py - y0 * FixedOne
            sx == smoothstep(tx)
            sy == smoothstep(ty)
            mix[v00 \in Int, v10 \in Int, v01 \in Int, v11 \in Int] ==
              LET a == v00 + FMul(v10 - v00, sx)
                  b == v01 + FMul(v11 - v01, sx)
              IN a + FMul(b - a, sy)
        IN mix[hash2D(x0, y0, ps), hash2D(x1, y0, ps), hash2D(x0, y1, ps), hash2D(x1, y1, ps)]
  IN noise[x, y, seed]

\* the octave loop of fractalNoise, from the given octave on
RECURSIVE fractalNoiseLoop(_, _, _, _, _, _, _, _, _, _, _)
fractalNoiseLoop(x, y, seed, octaves, lacunarity, gain, octave, amplitude, frequency, total, weight) ==
  IF octave >= octaves THEN IF weight > 0 THEN FDiv(total, weight) ELSE 0
  ELSE LET next[nextTotal \in Int, nextWeight \in Int, nextAmplitude \in Int,
                nextFrequency \in Int, nextOctave \in Int] ==
             fractalNoiseLoop(x, y, seed, octaves, lacunarity, gain, nextOctave,
                              nextAmplitude, nextFrequency, nextTotal, nextWeight)
       IN next[total + FMul(valueNoise(FMul(x, frequency), FMul(y, frequency),
                                       seed + octave * 97),
                            amplitude),
               weight + amplitude, FMul(amplitude, gain), FMul(frequency, lacunarity),
               octave + 1]

\* lines 2959-2980
fractalNoise(x, y, seed, octaves, lacunarity, gain) ==
  fractalNoiseLoop(x, y, seed, octaves, lacunarity, gain, 0, FixedOne, FixedOne, 0, 0)

\* a number: a pair of integers, NaN included
Number == Seq(Int)

\* a fixed-point number as a stored array element
Stored(v) ==
  LET element[n \in Int] == Rat(n, FixedOne)
  IN element[v]

\* a number rounded down to the fixed-point grid; NaN stays NaN
Fround(a) ==
  LET round[v \in Number] ==
        IF IsNaN(v) THEN NaN
        ELSE Stored((v[1] \div v[2]) * FixedOne + ((v[1] % v[2]) * FixedOne) \div v[2])
  IN round[a]

\* new Float32Array(values): a copy that holds its elements
Float32Array(values) == values @@ << >>

\* lines 2988-3003: the loops over oy, ox = -1 .. 1 from the k-th offset on, then the average
RECURSIVE smoothAverage(_, _, _, _, _, _, _)
smoothAverage(source, sz, x, y, k, total, count) ==
  IF k >= 9 THEN RDiv(total, MathMax(One, Num(count)))
  ELSE LET nx == x + (k % 3) - 1
           ny == y + (k \div 3) - 1
           add[sum \in Number, n \in Int] == smoothAverage(source, sz, x, y, k + 1, sum, n)
       IN IF nx < 0 \/ nx >= sz \/ ny < 0 \/ ny >= sz
          THEN smoothAverage(source, sz, x, y, k + 1, total, count)
          ELSE add[RAdd(total, source[toIndex(sz, nx, ny)]), count + 1]

\* lines 2982-3008; returns the terrain after the pass
smoothTerrain(t, sz, blend) ==
  LET pass[source \in [Cells(sz) -> Number]] ==
        Float32Array(
          [index \in Cells(sz) |->
             LET blended[average \in Number] ==
                   Fround(RAdd(RMul(source[index], RSub(One, blend)), RMul(average, blend)))
             IN blended[smoothAverage(source, sz, index % sz, index \div sz, 0, Zero, 0)]])
  IN pass[Float32Array(t)]

\* lines 3018-3043: the height of one cell before the clamp
cellHeight(sz, seed, x, y) ==
  IF IsNaN(RDiv(Num(x), Num(sz - 1))) \/ IsNaN(RDiv(Num(y), Num(sz - 1))) THEN NaN
  ELSE
    LET nx == (x * FixedOne) \div (sz - 1)
        ny == (y * FixedOne) \div (sz - 1)
        cx == nx * 2 - FixedOne
        cy == ny * 2 - FixedOne
        shaped[radial \in Int, macro \in Int, detail \in Int, ridgeBase \in Int,
               warpNoise \in Int] ==
          LET ridges == FixedOne - Abs(ridgeBase * 2 - FixedOne)
              warp == FMul(warpNoise - Dec(5, 10), Dec(72, 100))
              continent == FMul(macro - Dec(5, 10), Dec(138, 10))
              mountain == FMul(MathPow135(ridges), Dec(86, 10))
              fold == FMul(MathSin(FMul(FMul(nx, Dec(145, 100)) + FMul(ny, Dec(12, 10))
                                          + FMul(macro, Dec(8, 10)) + MulDec(seed, 12, 1000000),
                                        2 * PI)),
                           Dec(135, 100))
              valleyAxis == cy + warp
                              + FMul(MathSin(FMul(cx, Dec(31, 10)) + MulDec(seed, 21, 100000)),
                                     Dec(2, 10))
              steep == FMul(valleyAxis, Dec(42, 10))
              riverValley == -FMul(MathExpNeg(FMul(steep, steep)), Dec(45, 10))
              shore == FMul(IF radial - Dec(7, 10) > 0 THEN radial - Dec(7, 10) ELSE 0,
                            Dec(38, 10))
              coastalDrop == -FMul(FMul(shore, shore), Dec(33, 10))
              micro == FMul(detail - Dec(5, 10), Dec(19, 10))
          IN Stored(continent + mountain + fold + riverValley + coastalDrop + micro)
    IN shaped[FSqrt(FMul(cx, cx) + FMul(cy, cy)),
              fractalNoise(FMul(nx, Dec(34, 10)) + Dec(143, 10),
                           FMul(ny, Dec(34, 10)) + Dec(89, 10),
                           seed, 5, Dec(208, 100), Dec(52, 100)),
              fractalNoise(FMul(nx, Dec(188, 10)) + Dec(711, 10),
                           FMul(ny, Dec(188, 10)) + Dec(397, 10),
                           seed + 999, 4, Dec(22, 10), Dec(46, 100)),
              fractalNoise(FMul(nx, Dec(57, 10)) + Dec(27, 10),
                           FMul(ny, Dec(57, 10)) + Dec(64, 10),
                           seed + 313, 4, Dec(203, 100), Dec(5, 10)),
              fractalNoise(FMul(nx, Dec(72, 10)) + Dec(111, 10),
                           FMul(ny, Dec(72, 10)) + Dec(42, 10),
                           seed + 1703, 3, Dec(2, 1), Dec(5, 10))]

\* line 3044
generatedHeight(height) ==
  LET clamped[h \in Number] == clamp(h, Num(MIN_TERRAIN_HEIGHT), Num(MAX_TERRAIN_HEIGHT))
  IN clamped[height]

\* lines 3010-3047
generateBaseTerrain(sz, seed) ==
  LET raw == [index \in Cells(sz) |->
                generatedHeight(cellHeight(sz, seed, index % sz, index \div sz))]
  IN smoothTerrain(smoothTerrain(raw, sz, Rat(16, 100)), sz, Rat(8, 100))

\* the scan of findHighestInteriorCell from cell (x, y) on; bestIndex = -1 is "none yet",
\* when bestHeight is Number.NEGATIVE_INFINITY
RECURSIVE highestFrom(_, _, _, _, _, _, _)
highestFrom(t, sz, margin, x, y, bestIndex, bestHeight) ==
  IF y >= sz - margin THEN [index |-> bestIndex, height |-> bestHeight]
  ELSE IF x >= sz - margin THEN highestFrom(t, sz, margin, margin, y + 1, bestIndex, bestHeight)
  ELSE LET scan[index \in Int, height \in Number, nextX \in Int] ==
             IF IF bestIndex < 0 THEN ~IsNaN(height) ELSE RGt(height, bestHeight)
             THEN highestFrom(t, sz, margin, nextX, y, index, height)
             ELSE highestFrom(t, sz, margin, nextX, y, bestIndex, bestHeight)
       IN scan[toIndex(sz, x, y), t[toIndex(sz, x, y)], x + 1]

\* mutant: the first interior cell is taken, whatever its height
findHighestInteriorCell_FirstCell(t, sz, margin) ==
  IF margin >= sz - margin THEN Null
  ELSE [null |-> FALSE, x |-> margin, y |-> margin, height |-> t[toIndex(sz, margin, margin)]]

\* lines 3049-3077
findHighestInteriorCell(t, sz, margin) ==
  LET found[best \in [index : Int, height : Number]] ==
        IF best.index < 0 THEN Null
        ELSE [null |-> FALSE, x |-> best.index % sz, y |-> best.index \div sz,
              height |-> best.height]
  IN found[highestFrom(t, sz, margin, margin, margin, -1, NaN)]

\* Number(rate.toFixed(2))
toFixed2(a) == Rat(MathRound(RMul(a, Num(100))), 100)

\* lines 3079-3098
generateInitialSources(t, sz) ==
  LET margin == IF (sz * 6) \div 100 > 2 THEN (sz * 6) \div 100 ELSE 2
      placed[x \in Int, y \in Int, height \in Number] ==
        LET normalizedPeak == clamp(RDiv(RAdd(height, Num(4)), Num(20)), Zero, One)
            rate == RAdd(Rat(11, 10), RMul(normalizedPeak, Rat(95, 100)))
        IN << [id |-> "source-1", x |-> x, y |-> y, rate |-> toFixed2(rate),
               active |-> TRUE] >>
      sourcesAt[peak \in {Null} \cup [null : {FALSE}, x : Int, y : Int, height : Number]] ==
        IF peak.null THEN << >> ELSE placed[peak.x, peak.y, peak.height]
  IN sourcesAt[findHighestInteriorCell(t, sz, margin)]

\* Math.floor(Math.random() * 10_000_000) for the value random of Math.random()
randomSeed(random) == MathFloor(RMul(random, Num(10000000)))

\* mutant: the terrainSeed argument is ignored
seedParameter_Ignored(seedArg, random) == randomSeed(random)

\* line 3102: the terrainSeed parameter with its default; an argument that is given is
\* an integer number
seedParameter(seedArg, random) ==
  IF seedArg = Undefined THEN randomSeed(random) ELSE MathFloor(seedArg)

\* sizes, seed arguments (Undefined: the argument is omitted) and Math.random() results
GenSizeSet == {1, 2, 5, 6}
SeedArgSet == {Num(123456), Num(891011), Undefined}
RandomSet == {Rat(1, 8), Rat(3, 4)}

\* generateBaseTerrain reads nothing but its arguments: its results over the arguments
\* above are computed once, kept in generatedTerrains and looked up by every call
GeneratedTerrains ==
  [key \in GenSizeSet \X {seedParameter(seedArg, random) :
                             seedArg \in SeedArgSet, random \in RandomSet} |->
     generateBaseTerrain(key[1], key[2])] @@ << >>

\* line 3104: generateBaseTerrain(size, terrainSeed)
generatedTerrain(sz, seed) == generatedTerrains[<<sz, seed>>]

\* lines 3100-3116; random1 and random2 are the values Math.random() returns when called
createInitialWorld(sizeArg, seedArg, random1, random2) ==
  LET seed == seedParameter(seedArg, random1)
      t == generatedTerrain(sizeArg, seed)
  IN [size |-> sizeArg, terrainSeed |-> seed, terrain |-> t,
      water |-> ZeroArray(sizeArg * sizeArg),
      sources |-> generateInitialSources(t, sizeArg),
      vegetationSeed |-> randomSeed(random2)]

----------------------------------------------------------------------------
(* The HUD  (ui/hud.ts)                                                    *)
(* The Hud object is a record: the fields of Hud.state that the modes and  *)
(* the tool drive, the `hidden` flag of the three contextual rows and the  *)
(* `disabled` flag of the debug inputs.                                    *)

\* mutant: the Strength row ignores the interaction mode
showStrength_AnyMode(isCamera, isSourceTool) == ~isSourceTool

\* lines 666-668
showStrength(isCamera, isSourceTool) == ~isCamera /\ ~isSourceTool
showFlatten(isCamera, isFlattenTool) == ~isCamera /\ isFlattenTool
showSourceRate(isCamera, isSourceTool) == ~isCamera /\ isSourceTool

\* lines 662-673
updateContextualControlVisibility(h) ==
  LET isCamera == h.interactionMode = "camera"
      isSourceTool == h.tool = "waterSource"
      isFlattenTool == h.tool = "flatten"
  IN [h EXCEPT !.strengthRowHidden = ~showStrength(isCamera, isSourceTool),
               !.flattenRowHidden = ~showFlatten(isCamera, isFlattenTool),
               !.sourceRateRowHidden = ~showSourceRate(isCamera, isSourceTool)]

\* lines 518-527
Hud_setTool(h, tool) == updateContextualControlVisibility([h EXCEPT !.tool = tool])

\* lines 529-537
Hud_setInteractionMode(h, mode) ==
  updateContextualControlVisibility([h EXCEPT !.interactionMode = mode])

\* lines 539-562
Hud_setDebugMode(h, enabled) ==
  [h EXCEPT !.debugMode = enabled,
            !.dayCycleModeInputDisabled = ~enabled,
            !.weatherModeInputDisabled = ~enabled,
            !.manualRainInputDisabled = ~enabled \/ h.weatherMode # "manual",
            !.windModeInputDisabled = ~enabled]

\* lines 573-577
Hud_setDayCycleMode(h, mode) == [h EXCEPT !.dayCycleMode = mode]

\* lines 585-591
Hud_setWeatherMode(h, mode) ==
  [h EXCEPT !.weatherMode = mode,
            !.manualRainInputDisabled = ~h.debugMode \/ mode # "manual"]

\* lines 605-612
Hud_setWindMode(h, mode) == [h EXCEPT !.windMode = mode]

\* lines 66-72 and 599-603: normalizeUnit of a finite value is clamp(value, 0, 1)
normalizeUnit(value) == IF value[2] <= 0 THEN Zero ELSE clamp(value, Zero, One)

Hud_setManualRainIntensity(h, value) == [h EXCEPT !.manualRainIntensity = normalizeUnit(value)]

\* lines 675-700: the setters refresh() calls, in its order
Hud_refresh(h) ==
  LET h1 == Hud_setInteractionMode(h, h.interactionMode)
      h2 == Hud_setTool(h1, h1.tool)
      h3 == Hud_setDayCycleMode(h2, h2.dayCycleMode)
      h4 == Hud_setWeatherMode(h3, h3.weatherMode)
      h5 == Hud_setManualRainIntensity(h4, h4.manualRainIntensity)
      h6 == Hud_setWindMode(h5, h5.windMode)
      h7 == Hud_setDebugMode(h6, h6.debugMode)
  IN updateContextualControlVisibility(h7)

\* the constructor (lines 127 and 516): the initial state, fresh DOM elements, refresh()
Hud_new(initialState) ==
  Hud_refresh([tool |-> initialState.tool,
               interactionMode |-> initialState.interactionMode,
               debugMode |-> initialState.debugMode,
               dayCycleMode |-> initialState.dayCycleMode,
               weatherMode |-> initialState.weatherMode,
               manualRainIntensity |-> initialState.manualRainIntensity,
               windMode |-> initialState.windMode,
               strengthRowHidden |-> FALSE,
               flattenRowHidden |-> FALSE,
               sourceRateRowHidden |-> FALSE,
               dayCycleModeInputDisabled |-> FALSE,
               weatherModeInputDisabled |-> FALSE,
               manualRainInputDisabled |-> FALSE,
               windModeInputDisabled |-> FALSE])

----------------------------------------------------------------------------
(* Climate  (main.ts)                                                      *)
(* The fields of a ClimateState are rationals, except windDirection, a      *)
(* fixed-point angle; the sine signals of the simulated weather are        *)
(* computed in fixed point.                                                *)

DAY_CYCLE_SECONDS == 24 * 60
DAY_START_HOUR == 7

\* Math.PI * 2
TAU == 2 * PI

\* main.ts lines 102-109: the manual values whose sliders are not among the modelled events
manualDayHour == Num(DAY_START_HOUR)
manualCloudiness == Rat(35, 100)
manualWindStrength == Rat(42, 100)
manualWindDirection == Num(200)
manualWindGustiness == Rat(36, 100)

\* a fixed-point number as a JavaScript number, and the product v * n/d in fixed point
FromFixed(f) == Rat(f, FixedOne)
Scaled(v, n, d) == MulDec(v[1], n, d * v[2])
\* the product of a number and a fixed-point number, in fixed point
Times(v, f) == (v[1] * f) \div v[2]

\* lines 370-375
saturate(value) == MathMax(Zero, MathMin(One, value))
saturateFixed(f) == Max(0, Min(FixedOne, f))

\* lines 286-292
wrapHour(value) ==
  IF value[2] <= 0 THEN Num(DAY_START_HOUR)
  ELSE RSub(value, Num(24 * MathFloor(RDiv(value, Num(24)))))

\* lines 294-302, on a fixed-point angle
wrapRadians(angle) == angle % TAU

\* lines 304-306
toRadians(degrees) == wrapRadians(Times(RDiv(degrees, Num(180)), PI))

\* lines 312-315
getSimulatedDayPhase(t) ==
  LET phase == RAdd(RDiv(t, Num(DAY_CYCLE_SECONDS)), Rat(DAY_START_HOUR, 24))
  IN RSub(phase, Num(MathFloor(phase)))

\* lines 377-385: smoothstep(edge0, edge1, value) in fixed point
climateSmoothstep(edge0, edge1, value) ==
  IF edge0 = edge1 THEN (IF value < edge0 THEN 0 ELSE FixedOne)
  ELSE LET curve[t \in Int] == FMul(FMul(t, t), 3 * FixedOne - 2 * t)
       IN curve[saturateFixed(FDiv(value - edge0, edge1 - edge0))]

\* Math.sin(time * a + seed * b + extra) * 0.5 + 0.5
sineSignal(t, tn, td, seed, sn, sd, extra) ==
  MathSin(Scaled(t, tn, td) + Scaled(seed, sn, sd) + extra) \div 2 + FixedOne \div 2

\* lines 387-438
createClimateState(t, seed, dayPhase, weatherOverride, windOverride) ==
  LET wrappedDayPhase == RSub(dayPhase, Num(MathFloor(dayPhase)))
      sunWave == MathSin(Times(RSub(wrappedDayPhase, Rat(1, 4)), TAU))
      daylight == saturateFixed(Dec(18, 100) + FMul(Max(0, sunWave), Dec(82, 100)))
      cloudSignalA == sineSignal(t, 12, 1000, seed, 17, 100000, 0)
      cloudSignalB == sineSignal(t, 45, 10000, seed, 43, 100000, 0)
      simulatedCloudiness ==
        saturateFixed(Dec(1, 10) + FMul(FMul(cloudSignalA, Dec(62, 100))
                                        + FMul(cloudSignalB, Dec(38, 100)), Dec(78, 100)))
      rainPulse == sineSignal(t, 21, 1000, seed, 91, 100000, 0)
      rainGate == climateSmoothstep(Dec(6, 10), Dec(92, 100), simulatedCloudiness)
      simulatedRain == saturateFixed(FMul(rainGate, Dec(14, 100) + FMul(rainPulse, Dec(62, 100))))
      weather[cloud \in Int, rain \in Int] ==
        [cloudiness |-> IF weatherOverride = Null THEN FromFixed(cloud)
                        ELSE saturate(weatherOverride.cloudiness),
         rainIntensity |-> IF weatherOverride = Null THEN FromFixed(rain)
                           ELSE saturate(weatherOverride.rainIntensity)]
      wind[w \in {weather[simulatedCloudiness, simulatedRain]}] ==
        LET cloudiness == Scaled(w.cloudiness, 1, 1)
            rainIntensity == Scaled(w.rainIntensity, 1, 1)
            windSignalA == sineSignal(t, 95, 10000, seed, 31, 100000, 0)
            windSignalB == sineSignal(t, 17, 1000, seed, 73, 100000, FMul(cloudiness, Dec(14, 10)))
            windSignalC == sineSignal(t, 4, 1000, seed, 11, 10000, 0)
            windStrength == saturateFixed(Dec(18, 100) + FMul(windSignalA, Dec(46, 100))
                                          + FMul(rainIntensity, Dec(24, 100)))
            windGustiness == saturateFixed(Dec(15, 100) + FMul(windSignalB, Dec(54, 100))
                                           + FMul(rainIntensity, Dec(2, 10)))
            windDirection ==
              wrapRadians(Scaled(seed, 45, 1000000)
                          + FMul(Scaled(t, 1, 1), Dec(15, 1000) + FMul(windStrength, Dec(8, 1000)))
                          + FMul(windSignalC - Dec(1, 2), Dec(14, 10))
                          + FMul(windSignalB - Dec(1, 2), Dec(55, 100)))
        IN [dayPhase |-> wrappedDayPhase,
            daylight |-> FromFixed(daylight),
            cloudiness |-> w.cloudiness,
            rainIntensity |-> w.rainIntensity,
            windStrength |-> IF windOverride = Null THEN FromFixed(windStrength)
                             ELSE saturate(windOverride.strength),
            windDirection |-> IF windOverride = Null THEN windDirection
                              ELSE wrapRadians(windOverride.direction),
            windGustiness |-> IF windOverride = Null THEN FromFixed(windGustiness)
                              ELSE saturate(windOverride.gustiness)]
  IN wind[weather[simulatedCloudiness, simulatedRain]]

\* lines 329, 336, 347: the condition under which a manual value is used
overrideActive(debug, mode) == debug /\ mode = "manual"

\* lines 328-333, for the world time t
getActiveDayPhase(t) ==
  IF overrideActive(debugMode, dayCycleMode) THEN RDiv(wrapHour(manualDayHour), Num(24))
  ELSE getSimulatedDayPhase(t)

\* lines 335-344
getWeatherOverride ==
  IF overrideActive(debugMode, weatherMode)
  THEN [cloudiness |-> saturate(manualCloudiness),
        rainIntensity |-> saturate(manualRainIntensity)]
  ELSE Null

\* lines 346-356
getWindOverride ==
  IF overrideActive(debugMode, windMode)
  THEN [strength |-> saturate(manualWindStrength),
        direction |-> toRadians(manualWindDirection),
        gustiness |-> saturate(manualWindGustiness)]
  ELSE Null

\* the arguments main.ts hands to createClimateState for the world time t and seed
climateArguments(t, seed) ==
  [time |-> t, seed |-> seed, dayPhase |-> getActiveDayPhase(t),
   weatherOverride |-> getWeatherOverride, windOverride |-> getWindOverride]

climateOf(args) ==
  createClimateState(args.time, args.seed, args.dayPhase, args.weatherOverride,
                     args.windOverride)

\* lines 449-460: the water field after the rain of one step; the water depths w are
\* counted in parts of a height unit, `units` parts to one unit
applyRainfall(t, w, rainIntensity, dt, units) ==
  IF RLe(rainIntensity, Rat(2, 100)) THEN w
  ELSE LET baseRain == RMul(RMul(RMul(rainIntensity, dt), Rat(8, 100000)), units)
       IN [index \in DOMAIN w |->
             LET altitude == saturate(RDiv(RAdd(t[index], Num(8)), Num(26)))
                 orographicBias == RAdd(Rat(72, 100), RMul(altitude, Rat(45, 100)))
             IN RAdd(w[index], RMul(baseRain, orographicBias))] @@ << >>

----------------------------------------------------------------------------
(* The humidity field  (main.ts lines 22-23, 129-131, 440-447, 462-514)    *)
(* Humidity is held on the scale of FixedOne parts, like the climate.      *)

HUMIDITY_DIFFUSION_STEPS == 4

\* HUMIDITY_DIFFUSION_RATE = 0.13
HUMIDITY_DIFFUSION_RATE == Dec(13, 100)

\* what Float32Array cells hold when a NaN was stored: a value no comparison admits
NaNFixed == 0 - FixedOne

\* a rational on the scale of FixedOne parts; a large denominator is divided first
ToFixed(v) ==
  (v[1] \div v[2]) * FixedOne
    + (IF v[2] <= 2000 * FixedOne THEN ((v[1] % v[2]) * FixedOne) \div v[2]
       ELSE (v[1] % v[2]) \div (v[2] \div FixedOne))

\* saturate(value) of a number, on the scale of FixedOne parts
saturateToFixed(v) ==
  IF v = Infinity THEN FixedOne
  ELSE IF v[2] <= 0 THEN NaNFixed
  ELSE IF v[1] <= 0 THEN 0
  ELSE IF v[1] >= v[2] THEN FixedOne
  ELSE ToFixed(v)

clampUnit_Open(f) == f

\* saturate (lines 370-372) on the scale of FixedOne parts: Math.max(0, Math.min(1, value));
\* Math.min and Math.max hand a NaN through
clampUnit(f) == IF f = NaNFixed THEN NaNFixed ELSE saturateFixed(f)

\* state.water[index] * 3.2; a product beyond four units either way is held as four units,
\* which saturate treats alike
waterTimes(w) ==
  IF w = Infinity THEN 4 * FixedOne
  ELSE IF w[2] <= 0 THEN NaNFixed
  ELSE IF w[1] \div w[2] >= 1 THEN 4 * FixedOne
  ELSE IF w[1] \div w[2] < 0 - 1 THEN 0 - 4 * FixedOne
  ELSE FMul(ToFixed(w), Dec(32, 10))

\* saturate((state.terrain[index] + 8) / 26)
altitudeOf(t) ==
  IF t = Infinity THEN FixedOne
  ELSE IF t[2] <= 0 THEN NaNFixed
  ELSE saturateToFixed(RDiv(RAdd(t, Num(8)), Num(26)))

\* lines 442-445: the humidity a cell is seeded with
seedOfCell(w, t) ==
  LET wetness == clampUnit(waterTimes(w))
      altitude == altitudeOf(t)
      baseHumidity == Dec(18, 100) + FMul(FixedOne - altitude, Dec(26, 100))
  IN IF wetness = NaNFixed \/ altitude = NaNFixed THEN NaNFixed
     ELSE clampUnit(Max(baseHumidity, wetness))

\* seedHumidityFromWorld(target, state), lines 440-447
seedHumidityFromWorld(t, w) == [index \in DOMAIN t |-> seedOfCell(w[index], t[index])] @@ << >>

\* lines 464-474: the gain / decay update of one cell
updatedCell(current, w, t, rainIntensity, dt) ==
  LET waterWet == clampUnit(waterTimes(w))
      rainWet == FMul(rainIntensity, Dec(45, 100))
      altitude == altitudeOf(t)
      retainedMoisture == Dec(12, 100) + FMul(FixedOne - altitude, Dec(24, 100))
      wetTarget == Max(waterWet, retainedMoisture + FMul(rainWet, Dec(35, 100)))
      gain == IF wetTarget > current THEN Dec(21, 10) ELSE Dec(7, 10)
      gained == current + Times(dt, FMul(wetTarget - current, gain))
      decay == FMul(FMul(Dec(22, 1000) + FMul(altitude, Dec(2, 100)), FixedOne - waterWet),
                    FixedOne - FMul(rainIntensity, Dec(5, 10)))
      next == gained - Times(dt, decay)
  IN IF current = NaNFixed \/ waterWet = NaNFixed \/ altitude = NaNFixed THEN NaNFixed
     ELSE clampUnit(next)

RECURSIVE SumOver(_, _)
SumOver(map, cells) ==
  IF cells = {} THEN 0
  ELSE LET j == CHOOSE c \in cells : TRUE IN map[j] + SumOver(map, cells \ {j})

\* lines 482-506: the value the diffusion pass writes for one cell; it reads `map` only
diffusedCell(map, sz, index) ==
  LET x == index % sz
      y == index \div sz
      around == {index}
                \cup (IF x > 0 THEN {index - 1} ELSE {})
                \cup (IF x + 1 < sz THEN {index + 1} ELSE {})
                \cup (IF y > 0 THEN {index - sz} ELSE {})
                \cup (IF y + 1 < sz THEN {index + sz} ELSE {})
      total == SumOver(map, around)
      count == Cardinality(around)
      avg == total \div count
  IN IF \E j \in around : map[j] = NaNFixed THEN NaNFixed
     ELSE map[index] + FMul(avg - map[index], HUMIDITY_DIFFUSION_RATE)

diffusionDue_Always(counter) == TRUE

\* line 477: the diffusion pass runs when the counter is a multiple of the period
diffusionDue(counter) == counter % HUMIDITY_DIFFUSION_STEPS = 0

swapped_Not(map, scratch) == [humidityMap |-> map, humidityScratch |-> scratch]

\* lines 511-513: the two buffers change places
swapped(map, scratch) == [humidityMap |-> scratch, humidityScratch |-> map]

\* updateHumidity(state, dt, rainIntensity), lines 462-514, on the buffers `hum`
updateHumidity(hum, sz, t, w, dt, rainIntensity) ==
  CHOOSE result \in
    { IF ~diffusionDue(hum.humidityStepCounter + 1)
      THEN [humidityMap |-> updated, humidityScratch |-> hum.humidityScratch,
            humidityStepCounter |-> hum.humidityStepCounter + 1,
            diffused |-> FALSE, updated |-> updated, written |-> hum.humidityScratch]
      ELSE CHOOSE result \in
             { swapped(updated, written) @@
               [humidityStepCounter |-> hum.humidityStepCounter + 1, diffused |-> TRUE,
                updated |-> updated, written |-> written] :
                 written \in {[index \in DOMAIN updated |->
                                 diffusedCell(updated, sz, index)] @@ << >>} } : TRUE :
        updated \in {[index \in DOMAIN hum.humidityMap |->
                        updatedCell(hum.humidityMap[index], w[index], t[index],
                                    ToFixed(rainIntensity), dt)] @@ << >>} } : TRUE

\* the three humidity fields of main.ts as one record
Humidity ==
  [humidityMap |-> humidityMap, humidityScratch |-> humidityScratch,
   humidityStepCounter |-> humidityStepCounter]

\* the host state right after main.ts has run its top-level declarations
\* (lines 98-131), seeded the humidity (line 625) and built the Hud (lines 647-668)
LoopInit ==
  /\ manualRainIntensity = Rat(8, 100)
  /\ accumulator = Zero
  /\ climateState = [dayPhase |-> Zero, daylight |-> One, cloudiness |-> Rat(1, 5),
                     rainIntensity |-> Zero, windStrength |-> manualWindStrength,
                     windDirection |-> Times(RDiv(manualWindDirection, Num(180)), PI),
                     windGustiness |-> manualWindGustiness]
  /\ humidityMap = seedHumidityFromWorld(terrain, water)
  /\ humidityScratch = [index \in DOMAIN terrain |-> 0] @@ << >>
  /\ humidityStepCounter = 0
  /\ humidityCalls = 0
  /\ isPainting = FALSE

UiInit ==
  /\ interactionMode = "edit"
  /\ debugMode = FALSE
  /\ dayCycleMode = "simulation"
  /\ weatherMode = "simulation"
  /\ windMode = "simulation"
  /\ photoMode = FALSE
  /\ interactionModeBeforePhoto = interactionMode
  /\ modeAtPhotoEntry = interactionMode
  /\ hud = Hud_new([tool |-> toolMode, interactionMode |-> interactionMode,
                    debugMode |-> debugMode, dayCycleMode |-> dayCycleMode,
                    weatherMode |-> weatherMode,
                    manualRainIntensity |-> manualRainIntensity, windMode |-> windMode])

----------------------------------------------------------------------------
(* Worlds and parameters the solver is run on                              *)

MaxSteps == 2         \* stepWater calls per run
MaxDenominator == 16  \* a run goes on only from water values k/d with d <= MaxDenominator

Source(id, x, y, rate, active) ==
  [id |-> id, x |-> x, y |-> y, rate |-> rate, active |-> active]

Params(dt, flowRate, damping, evaporation, seepage, edgeDrain) ==
  [dt |-> dt, flowRate |-> flowRate, damping |-> damping, evaporation |-> evaporation,
   seepage |-> seepage, edgeDrain |-> edgeDrain]

\* SimParams values: loss-free with and without flow (seepage / edgeDrain absent or 0),
\* a stiff flow (flowRate*dt > 1), dt below and at the floor, the host's defaults, heavy losses
ParamSet ==
  { Params(One, One, Zero, Zero, Undefined, Undefined),
    Params(Rat(1, 2), Num(3), Zero, Zero, Zero, Zero),
    Params(Num(2), Num(3), Zero, Zero, Undefined, Zero),
    Params(Num(2), Zero, Zero, Zero, Zero, Zero),
    Params(Rat(1, 2), Zero, Zero, Zero, Undefined, Undefined),
    Params(Rat(1, 20000), Zero, Zero, Zero, Zero, Zero),
    Params(Zero, Zero, Zero, Zero, Zero, Zero),
    Params(Rat(1, 4), Num(2), Rat(1, 4), Rat(1, 8), Rat(1, 2), Rat(1, 2)),
    Params(One, One, Rat(1, 2), Rat(1, 4), Rat(1, 2), Rat(1, 2)),
    Params(Num(2), Num(2), Num(3), Zero, Zero, Num(1)),
    Params(One, Rat(1, 2), Zero, Num(1), Num(2), Zero) }

Arrays(sz, values) == [Cells(sz) -> values]

\* an array given by its values in row-major order
ArrayOf(seq) == [i \in 0 .. (Len(seq) - 1) |-> seq[i + 1]]

Centre(sz) == toIndex(sz, sz \div 2, sz \div 2)

TerrainSet(sz) ==
  IF sz = 1 THEN { [i \in Cells(1) |-> Zero] }
  ELSE IF sz = 2 THEN
    { [i \in Cells(2) |-> Zero],
      [i \in Cells(2) |-> Num(i % 2)],
      [i \in Cells(2) |-> Num(i - 12)] }
  ELSE
    { [i \in Cells(sz) |-> Zero],
      [i \in Cells(sz) |-> Num(i)],
      [i \in Cells(sz) |-> IF i = Centre(sz) THEN Num(-2) ELSE Zero],
      [i \in Cells(sz) |-> Rat((i * 2) % 3, 2)] }

WaterSet(sz) ==
  IF sz = 1 THEN Arrays(1, {Zero, One})
  ELSE IF sz = 2 THEN
    { ArrayOf(<<Zero, Zero, Zero, Zero>>),
      ArrayOf(<<Num(2), Num(2), Num(2), Num(2)>>),
      ArrayOf(<<Num(2), Zero, Zero, Zero>>),
      ArrayOf(<<Zero, Num(2), Num(2), Zero>>),
      ArrayOf(<<One, Zero, Num(3), Rat(1, 2)>>) }
  ELSE
    { [i \in Cells(sz) |-> Zero],
      [i \in Cells(sz) |-> Rat(i % 5, 2)],
      [i \in Cells(sz) |-> IF i = Centre(sz) THEN One ELSE Zero],
      [i \in Cells(sz) |-> IF i = Centre(sz) THEN Rat(5, 2) ELSE Zero],
      [i \in Cells(sz) |-> IF i = 0 THEN Num(2) ELSE Zero],
      [i \in Cells(sz) |-> IF i = 1 THEN One ELSE Zero] }

\* source lists: none; one active in-bounds source (centre, or the corner (size-1, 0));
\* an inactive one; an active one outside the grid; a negative rate next to a second source
SourceSet(sz) ==
  { <<>>,
    << Source("source-1", sz \div 2, sz \div 2, Rat(3, 2), TRUE) >>,
    << Source("source-1", 0, 0, Num(2), FALSE), Source("source-2", sz - 1, 0, One, TRUE) >>,
    << Source("source-1", 0, 0, Num(2), FALSE) >>,
    << Source("source-1", sz, 0, One, TRUE) >>,
    << Source("source-1", 0, 0, Num(-1), TRUE), Source("source-2", 0, sz - 1, Rat(1, 2), TRUE) >> }

SizeSet == {1, 2, 3}

IdleCall == [op |-> "none"]

\* the host state right after main.ts has run its top-level declarations
StoreInit ==
  /\ version = WORLD_VERSION
  /\ time = Zero
  /\ slots = << >>
  /\ sourceIdCounter = Len(sources) + 1

HostInit == StoreInit /\ LoopInit /\ UiInit

InitWater ==
  /\ generatedTerrains = << >>
  /\ terrainSeed = 0
  /\ vegetationSeed = 0
  /\ size \in SizeSet
  /\ terrain \in TerrainSet(size)
  /\ water \in WaterSet(size)
  /\ sources \in SourceSet(size)
  /\ simParams \in ParamSet
  /\ waterAtStart = water
  /\ scratchByLength = << >>
  /\ toolMode = "raise"
  /\ brush = DefaultBrush
  /\ call = IdleCall
  /\ steps = 0
  /\ HostInit

\* one fixed simulation tick of the solver: stepWater(world, simParams)
Exact(arr) == \A i \in DOMAIN arr : arr[i][2] <= MaxDenominator

StepWater ==
  /\ steps < MaxSteps
  /\ Exact(water)
  /\ LET r == stepWater(size, terrain, water, sources, scratchByLength, simParams)
     IN /\ water' = r.water
        /\ scratchByLength' = [n \in (DOMAIN scratchByLength) \cup {size * size} |->
                                 IF n = size * size THEN r.delta ELSE scratchByLength[n]]
        /\ call' = [op |-> "stepWater", before |-> water, injected |-> r.injected,
                    delta |-> r.delta, withFlow |-> r.withFlow]
  /\ steps' = steps + 1
  /\ UNCHANGED <<hostVars, terrainSeed, vegetationSeed, generatedTerrains, size, terrain, sources, simParams, waterAtStart, toolMode, brush>>

NextWater == StepWater

SpecWater == InitWater /\ [][NextWater]_vars

----------------------------------------------------------------------------
(* Properties of the water solver                                          *)

Stepped == call.op = "stepWater"

IsZeroOrAbsent(v) == v = Zero \/ v = Undefined

\* damping = evaporation = seepage = edgeDrain = 0 (the optional two may be absent)
LossFree(params) ==
  /\ params.damping = Zero
  /\ params.evaporation = Zero
  /\ IsZeroOrAbsent(params.seepage)
  /\ IsZeroOrAbsent(params.edgeDrain)

ActiveSources(srcs) == { k \in 1 .. Len(srcs) : srcs[k].active }

AllZero(arr) == \A i \in DOMAIN arr : arr[i] = Zero

\* the water a cell sends to its neighbours in the tick just made
RECURSIVE SumAmounts(_, _)
SumAmounts(transfers, k) ==
  IF k > Len(transfers) THEN Zero
  ELSE RAdd(transfers[k].amount, SumAmounts(transfers, k + 1))

SentBy(i) ==
  SumAmounts(cellTransfers(call.injected, terrain, size, i % size, i \div size,
                           stepFlowRate(simParams), stepDt(simParams)), 1)

\* C1: with damping = evaporation = seepage = edgeDrain = 0 and no active source,
\* a stepWater call leaves totalWater unchanged, so after any number of calls it
\* still equals the total the run began with.
C1_MassConserved ==
  (Stepped /\ LossFree(simParams) /\ ActiveSources(sources) = {})
    => /\ totalWater(water) = totalWater(call.before)
       /\ totalWater(water) = totalWater(waterAtStart)

\* C1 witness: two loss-free ticks without sources, the second of which moved water
C1_Witness ==
  /\ Stepped
  /\ steps = 2
  /\ LossFree(simParams)
  /\ ActiveSources(sources) = {}
  /\ water # call.before
  /\ call.before # waterAtStart

\* C2: every water cell is >= 0 after any number of stepWater calls, whatever the
\* parameters and the source rates.
C2_WaterNonNegative == \A i \in DOMAIN water : RGe(water[i], Zero)

\* C2 witness: a second tick in which the losses took all the water a cell held after the flow
C2_Witness ==
  /\ Stepped
  /\ steps = 2
  /\ \E i \in DOMAIN water : RGt(call.withFlow[i], Zero) /\ water[i] = Zero

\* C3: in every tick each cell sends at most the water it holds after source
\* injection, so water + delta is >= 0 in every cell before the losses are applied.
C3_OutflowWithinWater ==
  Stepped =>
    \A i \in DOMAIN water :
      /\ RLe(SentBy(i), call.injected[i])
      /\ RGe(call.withFlow[i], Zero)

\* C3 witness: a cell whose potentials exceeded its water, so that it sent all of it
C3_Witness ==
  /\ Stepped
  /\ \E i \in DOMAIN water :
       /\ RGt(call.injected[i], Zero)
       /\ SentBy(i) = call.injected[i]
       /\ RGt(RMul(stepFlowRate(simParams), stepDt(simParams)), One)

\* the case of C4: all water 0 before the tick, exactly one active source, in bounds,
\* with rate >= 0, dt > 0 and flowRate = damping = evaporation = seepage = edgeDrain = 0
OnlySource == sources[CHOOSE k \in ActiveSources(sources) : TRUE]

SourceInjectionCase ==
  /\ Stepped
  /\ AllZero(call.before)
  /\ Cardinality(ActiveSources(sources)) = 1
  /\ inBounds(size, OnlySource.x, OnlySource.y)
  /\ RGe(OnlySource.rate, Zero)
  /\ RGt(simParams.dt, Zero)
  /\ simParams.flowRate = Zero
  /\ LossFree(simParams)

InjectedField(amount) ==
  [i \in Cells(size) |->
     IF i = toIndex(size, OnlySource.x, OnlySource.y) THEN amount ELSE Zero]

IsFlat(t) == \A i, j \in DOMAIN t : t[i] = t[j]

CentreOnlyCase ==
  /\ Stepped
  /\ size % 2 = 1
  /\ size >= 3
  /\ IsFlat(terrain)
  /\ RGt(call.before[Centre(size)], Zero)
  /\ \A i \in DOMAIN call.before : i # Centre(size) => call.before[i] = Zero

Symmetric ==
  LET c == size \div 2
      right == water[toIndex(size, c + 1, c)]
      left == water[toIndex(size, c - 1, c)]
      up == water[toIndex(size, c, c + 1)]
      down == water[toIndex(size, c, c - 1)]
  IN right = left /\ up = down /\ right = up

\* C5 as stated: one tick from the centre-only state gives the four neighbours of the
\* centre equal water.
C5_Symmetry_AsStated == CentreOnlyCase => Symmetric

\* no source adds water to a cell other than the centre during the tick
NoOffCentreInjection ==
  \A k \in ActiveSources(sources) :
    \/ ~inBounds(size, sources[k].x, sources[k].y)
    \/ RLe(sources[k].rate, Zero)
    \/ toIndex(size, sources[k].x, sources[k].y) = Centre(size)

\* C5 amended: the four neighbours get equal water when, in addition, no active source
\* injects into a cell other than the centre.
C5_Symmetry == (CentreOnlyCase /\ NoOffCentreInjection) => Symmetric

\* C5 witness: the centre-only case in which water reached the neighbours and stayed there
C5_Witness ==
  /\ CentreOnlyCase
  /\ NoOffCentreInjection
  /\ RGt(water[toIndex(size, size \div 2 + 1, size \div 2)], Zero)
  /\ RGt(simParams.edgeDrain, Zero)

----------------------------------------------------------------------------
(* Brush strokes                                                           *)

MaxStrokes == 2   \* applyBrush calls per run

DefaultParams == Params(Rat(1, 60), Rat(9, 5), Rat(1, 40), Rat(3, 10000), Rat(1, 25), Rat(3, 10))

ToolModes == {"raise", "lower", "flatten", "waterSource"}

\* radius below 1 and at 1, 2; strength below 0.01, inside and above 1; flatten targets
\* inside and outside the terrain bounds
BrushSet ==
  { Brush(Rat(1, 2), Rat(1, 2), Zero),
    Brush(One, Rat(1, 2), Zero),
    Brush(One, Rat(1, 2), Num(30)),
    Brush(One, One, Num(-20)),
    Brush(Num(2), Zero, Num(5)),
    Brush(Num(2), Num(2), Num(5)),
    Brush(Num(2), Num(8), Num(-12)),
    Brush(Num(8), Rat(1, 2), Num(24)) }

BrushTerrainSet(sz) ==
  { [i \in Cells(sz) |-> Zero],
    [i \in Cells(sz) |-> Num(10)],
    [i \in Cells(sz) |-> Num(3 * i - 12)] }
  \cup (IF sz = 3 THEN { [i \in Cells(sz) |-> Num(MAX_TERRAIN_HEIGHT)],
                         [i \in Cells(sz) |-> Num(MIN_TERRAIN_HEIGHT)] }
        ELSE {})

\* stroke centres: outside the grid, the corners, the centre cell, between cells
CentreSet(sz) ==
  { <<Num(-3), Num(-3)>>, <<Zero, Zero>>, <<Num(sz - 1), Num(sz - 1)>>,
    <<Num(sz \div 2), Num(sz \div 2)>>, <<Rat(1, 2), Rat(3, 2)>>, <<Num(sz + 1), Zero>> }

InitBrush ==
  /\ generatedTerrains = << >>
  /\ terrainSeed = 0
  /\ vegetationSeed = 0
  /\ size \in {2, 3}
  /\ terrain \in BrushTerrainSet(size)
  /\ water = ZeroArray(size * size)
  /\ sources = <<>>
  /\ simParams = DefaultParams
  /\ waterAtStart = water
  /\ scratchByLength = << >>
  /\ toolMode \in ToolModes
  /\ brush \in BrushSet
  /\ call = IdleCall
  /\ steps = 0
  /\ HostInit

\* onPaint with a terrain tool: applyBrush(world, x, y, toolMode, brush)
ApplyBrush(cx, cy) ==
  /\ steps < MaxStrokes
  /\ Exact(terrain)
  /\ LET r == applyBrush(size, terrain, cx, cy, toolMode, brush)
     IN /\ terrain' = r.terrain
        /\ call' = [op |-> "applyBrush", cx |-> cx, cy |-> cy, before |-> terrain,
                    touched |-> r.touched]
  /\ steps' = steps + 1
  /\ UNCHANGED <<hostVars, terrainSeed, vegetationSeed, generatedTerrains, size, water, sources, simParams, waterAtStart, scratchByLength, toolMode, brush>>

NextBrush == \E c \in CentreSet(size) : ApplyBrush(c[1], c[2])

SpecBrush == InitBrush /\ [][NextBrush]_vars

Brushed == call.op = "applyBrush"

InTerrainRange(v) == RGe(v, Num(MIN_TERRAIN_HEIGHT)) /\ RLe(v, Num(MAX_TERRAIN_HEIGHT))

\* C6: after any sequence of applyBrush calls (any tool, centre, radius, strength and
\* flattenHeight) the terrain still has size*size cells, each within [-12, 24], and no
\* call accessed an index outside the array (the only way a stroke could fail).
C6_BrushKeepsTerrainInRange ==
  /\ DOMAIN terrain = Cells(size)
  /\ \A i \in DOMAIN terrain : InTerrainRange(terrain[i])
  /\ Brushed => call.touched \subseteq Cells(size)

\* C6 witness: a second stroke, a raise centred on the grid corner (size-1, size-1), whose
\* result for the corner cell had to be clamped back to the upper bound
C6_Witness ==
  /\ Brushed
  /\ steps = 2
  /\ toolMode = "raise"
  /\ call.cx = Num(size - 1)
  /\ call.cy = Num(size - 1)
  /\ toIndex(size, size - 1, size - 1) \in call.touched
  /\ call.before[toIndex(size, size - 1, size - 1)] = Num(MAX_TERRAIN_HEIGHT)
  /\ terrain[toIndex(size, size - 1, size - 1)] = Num(MAX_TERRAIN_HEIGHT)

\* the case of C7: a flatten stroke centred on a grid cell
FlattenCase ==
  /\ Brushed
  /\ toolMode = "flatten"
  /\ call.cx[2] = 1
  /\ call.cy[2] = 1
  /\ inBounds(size, call.cx[1], call.cy[1])

StrokeCell == toIndex(size, call.cx[1], call.cy[1])
GapBefore == RAbs(RSub(call.before[StrokeCell], brush.flattenHeight))
GapAfter == RAbs(RSub(terrain[StrokeCell], brush.flattenHeight))

----------------------------------------------------------------------------
(* The hover diagnostics                                                   *)

\* the hovered coordinates: two cells beyond the grid on every side
HoverRange(sz) == (-2) .. (sz + 1)

InitDiag ==
  /\ generatedTerrains = << >>
  /\ terrainSeed = 0
  /\ vegetationSeed = 0
  /\ size \in SizeSet
  /\ terrain \in TerrainSet(size)
  /\ water \in WaterSet(size)
  /\ sources = <<>>
  /\ simParams \in { Params(One, One, Zero, Zero, Undefined, Undefined),
                     Params(Rat(1, 4), Num(2), Rat(1, 4), Rat(1, 8), Rat(1, 2), Rat(1, 2)) }
  /\ waterAtStart = water
  /\ scratchByLength = << >>
  /\ toolMode = "raise"
  /\ brush = DefaultBrush
  /\ call = IdleCall
  /\ steps = 0
  /\ HostInit

\* updateDebugReadout: sampleCellWaterDiagnostics(world, simParams, hoveredCell.x, hoveredCell.y)
Sample(x, y) ==
  /\ call' = [op |-> "sample", x |-> x, y |-> y,
              result |-> sampleCellWaterDiagnostics(size, terrain, water, simParams, x, y)]
  /\ UNCHANGED <<hostVars, terrainSeed, vegetationSeed, generatedTerrains, size, terrain, water, sources, simParams, waterAtStart, scratchByLength,
                 toolMode, brush, steps>>

NextDiag == \E x, y \in HoverRange(size) : Sample(x, y)

SpecDiag == InitDiag /\ [][NextDiag]_vars

Sampled == call.op = "sample"

\* C8: sampleCellWaterDiagnostics returns null for every (x, y) with x < 0, x >= size,
\* y < 0 or y >= size, and a record (not null) for every in-bounds (x, y).
C8_DiagnosticsNullOutside ==
  Sampled =>
    IF call.x < 0 \/ call.x >= size \/ call.y < 0 \/ call.y >= size
      THEN call.result = Null
      ELSE /\ call.result # Null
           /\ call.result.index \in DOMAIN water
           /\ call.result.waterHeight = water[call.result.index]

\* C8 witness: a sample just past the right edge, in a row of the grid, returned null
C8_Witness ==
  /\ Sampled
  /\ call.x = size
  /\ call.y \in 0 .. (size - 1)
  /\ call.result = Null

----------------------------------------------------------------------------
(* World creation                                                          *)

\* what a createInitialWorld call is remembered by once the next call has been made
Earlier ==
  [null |-> FALSE, size |-> call.size, seed |-> call.seed, terrain |-> terrain,
   sources |-> sources, vegetationSeed |-> vegetationSeed]

\* main.ts line 81: the world exists from module load on
InitGen ==
  /\ generatedTerrains = GeneratedTerrains
  /\ \E sizeArg \in GenSizeSet, seedArg \in SeedArgSet, random1, random2 \in RandomSet :
       \E created \in {createInitialWorld(sizeArg, seedArg, random1, random2)} :
          /\ size = created.size
          /\ terrain = created.terrain
          /\ water = created.water
          /\ sources = created.sources
          /\ terrainSeed = created.terrainSeed
          /\ vegetationSeed = created.vegetationSeed
          /\ call = [op |-> "createInitialWorld", size |-> sizeArg, seed |-> seedArg,
                     previous |-> Null]
  /\ waterAtStart = water
  /\ scratchByLength = << >>
  /\ simParams = DefaultParams
  /\ toolMode = "raise"
  /\ brush = DefaultBrush
  /\ steps = 0
  /\ HostInit

\* a further call createInitialWorld(sizeArg, seedArg), its result replacing the world
CreateWorld(sizeArg, seedArg) ==
  /\ \E random1, random2 \in RandomSet :
       \E created \in {createInitialWorld(sizeArg, seedArg, random1, random2)} :
          /\ size' = created.size
          /\ terrain' = created.terrain
          /\ water' = created.water
          /\ sources' = created.sources
          /\ terrainSeed' = created.terrainSeed
          /\ vegetationSeed' = created.vegetationSeed
  /\ waterAtStart' = water'
  /\ call' = [op |-> "createInitialWorld", size |-> sizeArg, seed |-> seedArg,
              previous |-> Earlier]
  /\ UNCHANGED <<hostVars, generatedTerrains, scratchByLength, simParams, toolMode, brush, steps>>

NextGen == \E sizeArg \in GenSizeSet, seedArg \in SeedArgSet : CreateWorld(sizeArg, seedArg)

SpecGen == InitGen /\ [][NextGen]_vars

----------------------------------------------------------------------------
(* Properties of world creation                                            *)

Recreated == call.op = "createInitialWorld" /\ ~call.previous.null

\* the last two calls were given the same size and the same seed
SameArguments ==
  /\ call.seed # Undefined
  /\ call.size = call.previous.size
  /\ call.seed = call.previous.seed

\* C9: two calls of createInitialWorld(size, seed) with the same size and seed return
\* identical terrain arrays and identical initial source lists, whatever Math.random()
\* returned during either call and whatever world existed before it.
C9_SameSeedSameWorld ==
  (Recreated /\ SameArguments) =>
     /\ terrain = call.previous.terrain
     /\ sources = call.previous.sources

\* C9 witness: a 6x6 world with a source was created twice from the same arguments, and the
\* two calls drew different values from Math.random() (their vegetation seeds differ)
C9_Witness ==
  /\ Recreated
  /\ SameArguments
  /\ size = 6
  /\ Len(sources) = 1
  /\ \E i, j \in DOMAIN terrain : terrain[i] # terrain[j]
  /\ vegetationSeed # call.previous.vegetationSeed

\* C10 as stated: for every size and seed, every value of the terrain returned by
\* createInitialWorld lies in [-12, 24].
C10_GeneratedTerrainInRange ==
  call.op = "createInitialWorld" => \A i \in DOMAIN terrain : InTerrainRange(terrain[i])

\* the interior of the grid: margin = max(2, floor(size * 0.06)) cells from each edge
InteriorMargin == Max(2, (size * 6) \div 100)
Interior ==
  {c \in (0 .. size - 1) \X (0 .. size - 1) :
     /\ InteriorMargin <= c[1] /\ c[1] < size - InteriorMargin
     /\ InteriorMargin <= c[2] /\ c[2] < size - InteriorMargin}

Created == call.op = "createInitialWorld"

\* C11: the initial source list of a created world holds exactly one source when the
\* interior is non-empty: it is active, lies at an interior cell whose height is the
\* maximum over the interior, and its rate lies in [1.1, 2.05]; with an empty interior
\* the list is empty.
C11_InitialSource ==
  Created =>
    IF Interior = {} THEN sources = << >>
    ELSE /\ Len(sources) = 1
         /\ sources[1].active
         /\ <<sources[1].x, sources[1].y>> \in Interior
         /\ \A c \in Interior :
              RLe(terrain[toIndex(size, c[1], c[2])],
                  terrain[toIndex(size, sources[1].x, sources[1].y)])
         /\ RGe(sources[1].rate, Rat(11, 10))
         /\ RLe(sources[1].rate, Rat(205, 100))

\* C11 witness: a created world with several interior cells of different heights, the
\* source away from the first of them
C11_Witness ==
  /\ Created
  /\ Len(sources) = 1
  /\ \E c \in Interior : RLt(terrain[toIndex(size, c[1], c[2])],
                             terrain[toIndex(size, sources[1].x, sources[1].y)])
  /\ <<sources[1].x, sources[1].y>> # <<InteriorMargin, InteriorMargin>>

\* C11 witness of the degenerate case: a created world without interior cell
C11_EmptyInterior == Created /\ Interior = {} /\ sources = << >>

----------------------------------------------------------------------------
(* Persistence  (persistence/storage)                                      *)
(*                                                                         *)
(* The bytes of a slot are modelled by the value JSON.parse yields for     *)
(* them: null, a number, a string, a boolean, an array or an object whose  *)
(* fields may be missing; bytes that are no JSON text are NotJson.         *)
(* JSON.stringify writes a non-finite number as null, and the number       *)
(* literal 1e999 parses to Infinity.                                       *)

\* a value is the pair of its kind and its content
JNull == <<"null", 0>>
JUndefined == <<"undefined", 0>>
NotJson == <<"no JSON text", 0>>
JNum(v) == <<"number", v>>
JStr(s) == <<"string", s>>
JBool(b) == <<"boolean", b>>
JArr(items) == <<"array", items>>
JObj(fields) == <<"object", fields>>
Kind(value) == value[1]
Content(value) == value[2]

\* a property read: undefined when the object lacks the field (an array has none of them)
Get(obj, name) ==
  IF Kind(obj) = "object" /\ name \in DOMAIN Content(obj) THEN Content(obj)[name] ELSE JUndefined

\* JSON.stringify of a number
stringifyNumber(v) == IF v[2] > 0 THEN JNum(v) ELSE JNull

\* Array.from(typedArray) as JSON.stringify writes it
stringifyArray(arr) ==
  JArr([i \in 1 .. Cardinality(DOMAIN arr) |-> stringifyNumber(arr[i - 1])])

\* JSON.stringify of state.sources
stringifySources(list) ==
  JArr([i \in 1 .. Len(list) |->
          JObj([id |-> JStr(list[i].id), x |-> stringifyNumber(Num(list[i].x)),
                y |-> stringifyNumber(Num(list[i].y)),
                rate |-> stringifyNumber(list[i].rate), active |-> JBool(list[i].active)])])

\* lines 56-70
serializeWorld(state) ==
  JObj([version |-> stringifyNumber(Num(state.version)),
        size |-> stringifyNumber(Num(state.size)),
        terrainSeed |-> stringifyNumber(state.terrainSeed),
        terrain |-> stringifyArray(state.terrain),
        water |-> stringifyArray(state.water),
        sources |-> stringifySources(state.sources),
        vegetationSeed |-> stringifyNumber(state.vegetationSeed),
        time |-> stringifyNumber(state.time)])

\* lines 24-26
isFiniteNumber(value) == Kind(value) = "number" /\ Content(value)[2] > 0

\* the number a typed array stores for an array element (ToNumber); the strings of the
\* modelled payloads are not numeric
ToNumber(value) ==
  CASE Kind(value) = "number" -> Content(value)
    [] Kind(value) = "null" -> Zero
    [] Kind(value) = "boolean" -> IF Content(value) THEN One ELSE Zero
    [] Kind(value) = "string" -> IF Content(value) = "" THEN Zero ELSE NaN
    [] OTHER -> NaN

\* Float32Array.from(array)
Float32ArrayFrom(items) == [i \in 0 .. Len(items) - 1 |-> ToNumber(items[i + 1])] @@ << >>

\* a whole number is held as an integer (grid coordinates and sizes are integers
\* throughout the model), any other number as it is
Whole(v) == IF v[2] = 1 THEN v[1] ELSE v

Thrown(message) == [ok |-> FALSE, error |-> message]
Returned(value) == [ok |-> TRUE, value |-> value]

\* lines 34-42: the test of one source entry
invalidSourceEntry(item) ==
  \/ Kind(item) \notin {"object", "array"}
  \/ Kind(Get(item, "id")) # "string"
  \/ ~isFiniteNumber(Get(item, "x"))
  \/ ~isFiniteNumber(Get(item, "y"))
  \/ ~isFiniteNumber(Get(item, "rate"))
  \/ Kind(Get(item, "active")) # "boolean"

\* lines 28-54
validateSources(value) ==
  IF Kind(value) # "array" THEN Thrown("Invalid source payload")
  ELSE IF \E i \in DOMAIN Content(value) : invalidSourceEntry(Content(value)[i])
       THEN Thrown("Invalid source entry")
       ELSE Returned([i \in DOMAIN Content(value) |->
                        [id |-> Content(Get(Content(value)[i], "id")),
                         x |-> Whole(Content(Get(Content(value)[i], "x"))),
                         y |-> Whole(Content(Get(Content(value)[i], "y"))),
                         rate |-> Content(Get(Content(value)[i], "rate")),
                         active |-> Content(Get(Content(value)[i], "active"))]])

\* mutant: a missing terrainSeed default is used for every payload
restoredTerrainSeed_Dropped(world) == Zero

\* line 101
restoredTerrainSeed(world) ==
  IF isFiniteNumber(Get(world, "terrainSeed")) THEN Content(Get(world, "terrainSeed")) ELSE Zero

\* lines 72-108
deserializeWorld(data) ==
  IF data = NotJson THEN Thrown("SyntaxError")
  ELSE IF Kind(data) \notin {"object", "array"} THEN Thrown("Invalid world payload")
  ELSE IF \/ ~isFiniteNumber(Get(data, "version"))
          \/ ~isFiniteNumber(Get(data, "size"))
          \/ Kind(Get(data, "terrain")) # "array"
          \/ Kind(Get(data, "water")) # "array"
          \/ ~isFiniteNumber(Get(data, "vegetationSeed"))
          \/ ~isFiniteNumber(Get(data, "time"))
       THEN Thrown("Incomplete world payload")
  ELSE LET sizeValue == Content(Get(data, "size"))
           expectedLength == RMul(sizeValue, sizeValue)
       IN IF \/ Num(Len(Content(Get(data, "terrain")))) # expectedLength
             \/ Num(Len(Content(Get(data, "water")))) # expectedLength
          THEN Thrown("Corrupted world dimensions")
          ELSE LET validated == validateSources(Get(data, "sources"))
               IN IF ~validated.ok THEN validated
                  ELSE Returned([version |-> 1,
                                 size |-> Whole(sizeValue),
                                 terrainSeed |-> restoredTerrainSeed(data),
                                 terrain |-> Float32ArrayFrom(Content(Get(data, "terrain"))),
                                 water |-> Float32ArrayFrom(Content(Get(data, "water"))),
                                 sources |-> validated.value,
                                 vegetationSeed |-> Content(Get(data, "vegetationSeed")),
                                 time |-> Content(Get(data, "time"))])

----------------------------------------------------------------------------
(* Saving, loading and water-source toggling in the host  (main.ts)        *)

MaxEvents == 6
MaxSources == 3

\* the live WorldState object
World ==
  [version |-> version, size |-> size, terrainSeed |-> terrainSeed, terrain |-> terrain,
   water |-> water, sources |-> sources, vegetationSeed |-> vegetationSeed, time |-> time]

\* worlds the host can hold before any source was toggled: as created (time 0, no water)
\* or after some simulation; the sources are those generateInitialSources placed
PatternArray(sz, mul, modulus, offset, den) ==
  [i \in Cells(sz) |-> Rat(((i * mul) % modulus) + offset, den)] @@ << >>

StoreWorldSet ==
  { [size |-> 2, terrainSeed |-> Zero, vegetationSeed |-> Num(987), time |-> Rat(25, 2),
     terrain |-> ArrayOf(<<Num(-12), Num(24), Rat(1, 2), Zero>>),
     water |-> ArrayOf(<<Zero, Rat(3, 4), Zero, Num(5)>>)],
    [size |-> 5, terrainSeed |-> Num(424242), vegetationSeed |-> Num(7500000), time |-> Zero,
     terrain |-> PatternArray(5, 7, 13, -4, 2), water |-> ZeroArray(25)],
    [size |-> 5, terrainSeed |-> Num(123456), vegetationSeed |-> Zero, time |-> Rat(1, 60),
     terrain |-> PatternArray(5, 5, 11, 9, 1), water |-> PatternArray(5, 3, 4, 0, 8)] }

SlotSet == {1, 2}

\* the cells a pointer press can hit
PressSet(sz) == {<<0, 0>>, <<sz - 1, sz - 1>>, <<sz \div 2, sz \div 2>>}

\* the HUD's source rate (main.ts line 110)
DefaultSourceRate == Rat(6, 5)

\* payloads an object store can hold that serializeWorld did not write
GoodSource ==
  [id |-> JStr("source-1"), x |-> JNum(Zero), y |-> JNum(Zero), rate |-> JNum(One),
   active |-> JBool(TRUE)]

GoodFields ==
  [version |-> JNum(One), size |-> JNum(Num(2)), terrainSeed |-> JNum(Num(7)),
   terrain |-> JArr(<<JNum(Num(3)), JNum(Zero), JNum(Num(-12)), JNum(Num(24))>>),
   water |-> JArr(<<JNum(Rat(1, 2)), JNum(Zero), JNum(Zero), JNum(Num(2))>>),
   sources |-> JArr(<<JObj(GoodSource)>>),
   vegetationSeed |-> JNum(Num(9)), time |-> JNum(Rat(5, 2))]

With(fields, name, value) ==
  [f \in DOMAIN fields |-> IF f = name THEN value ELSE fields[f]]
Without(fields, name) == [f \in DOMAIN fields \ {name} |-> fields[f]]

\* the array with its first element replaced
WithFirst(array, value) ==
  JArr([i \in DOMAIN Content(array) |-> IF i = 1 THEN value ELSE Content(array)[i]])

PayloadSet ==
  { NotJson, JNull, JNum(One), JStr("world"), JArr(<< >>), JObj(GoodFields) }
  \cup { JObj(Without(GoodFields, name)) : name \in DOMAIN GoodFields }
  \cup { JObj(With(GoodFields, name, JNum(Infinity))) :
           name \in {"version", "size", "terrainSeed", "vegetationSeed", "time"} }
  \cup { JObj(With(GoodFields, name, value)) :
           name \in {"terrain", "water"},
           value \in { JArr(<< >>), JArr(<<JNum(One), JNum(One), JNum(One)>>),
                       JStr("none") } }
  \cup { JObj(With(GoodFields, name, WithFirst(GoodFields[name], value))) :
           name \in {"terrain", "water"},
           value \in { JNum(Infinity), JNull, JStr("x"), JNum(Num(-1)), JNum(Num(30)) } }
  \cup { JObj(With(GoodFields, "sources", value)) :
           value \in { JNull, JArr(<< >>), JArr(<<JNull>>), JArr(<<JNum(One)>>),
                       JArr(<<JObj(Without(GoodSource, "id"))>>),
                       JArr(<<JObj(With(GoodSource, "rate", JNum(Infinity)))>>),
                       JArr(<<JObj(With(GoodSource, "x", JStr("0")))>>),
                       JArr(<<JObj(With(GoodSource, "active", JNull))>>) } }
  \cup { JObj(With(With(GoodFields, "size", JNum(One)), "sources", JNull)) }

\* a fresh host: the world, no saved slot, the waterSource tool selected
InitHost ==
  /\ generatedTerrains = << >>
  /\ \E w \in StoreWorldSet :
       /\ size = w.size
       /\ terrain = w.terrain
       /\ water = w.water
       /\ terrainSeed = w.terrainSeed
       /\ vegetationSeed = w.vegetationSeed
       /\ sources = generateInitialSources(w.terrain, w.size)
       /\ time = w.time
  /\ version = WORLD_VERSION
  /\ sourceIdCounter = Len(sources) + 1
  /\ waterAtStart = water
  /\ scratchByLength = << >>
  /\ simParams = DefaultParams
  /\ toolMode = "waterSource"
  /\ LoopInit
  /\ UiInit
  /\ brush = DefaultBrush
  /\ call = IdleCall
  /\ steps = 0

InitStore == InitHost /\ slots = << >>

\* a host whose object store was written by someone else: one slot of any content
InitPayload == InitHost /\ \E data \in PayloadSet : slots = [slot \in {1} |-> data]

findNearbySourceIndex_SameCell(list, x, y) ==
  LET near == {i \in DOMAIN list : list[i].x = x /\ list[i].y = y}
  IN IF near = {} THEN 0 ELSE CHOOSE i \in near : \A j \in near : i <= j

\* main.ts lines 982-988: the index (from 1) of the first source within 1.5 cells, 0 if none
\* (between integer cells dx*dx + dy*dy <= 1.5 * 1.5 is dx*dx + dy*dy <= 2)
findNearbySourceIndex(list, x, y) ==
  LET near == {i \in DOMAIN list :
                 (list[i].x - x) * (list[i].x - x) + (list[i].y - y) * (list[i].y - y) <= 2}
  IN IF near = {} THEN 0 ELSE CHOOSE i \in near : \A j \in near : i <= j

\* list.splice(index, 1)
Splice(list, index) == [i \in 1 .. Len(list) - 1 |-> IF i < index THEN list[i] ELSE list[i + 1]]

\* the id `source-${counter}`
SourceId(counter) ==
  CASE counter = 1 -> "source-1" [] counter = 2 -> "source-2" [] counter = 3 -> "source-3"
    [] counter = 4 -> "source-4" [] counter = 5 -> "source-5" [] counter = 6 -> "source-6"
    [] OTHER -> "source-7"

\* a pointer press outside camera mode with the waterSource tool: onPaint on the initial
\* stroke calls toggleWaterSource(x, y)  (controller lines 110-123, main.ts lines 919-926,
\* 990-1010)
ToggleWaterSource(x, y) ==
  /\ steps < MaxEvents
  /\ interactionMode # "camera"
  /\ toolMode = "waterSource"
  /\ LET existingIndex == findNearbySourceIndex(sources, x, y)
     IN IF existingIndex > 0
        THEN /\ sources' = Splice(sources, existingIndex)
             /\ UNCHANGED sourceIdCounter
        ELSE /\ Len(sources) < MaxSources
             /\ sources' = Append(sources, Source(SourceId(sourceIdCounter), x, y,
                                                  DefaultSourceRate, TRUE))
             /\ sourceIdCounter' = sourceIdCounter + 1
  /\ call' = [op |-> "toggleWaterSource", x |-> x, y |-> y, sourcesBefore |-> sources]
  /\ steps' = steps + 1
  /\ UNCHANGED <<version, time, slots, size, terrain, water, terrainSeed, vegetationSeed,
                 generatedTerrains, scratchByLength, simParams, waterAtStart, toolMode, brush,
                 uiVars, loopVars>>

\* onSave (main.ts lines 778-786): saveWorldToSlot puts serializeWorld(world) in the slot
OnSave(slot) ==
  /\ steps < MaxEvents
  /\ slots' = [s \in DOMAIN slots \cup {slot} |->
                 IF s = slot THEN serializeWorld(World) ELSE slots[s]]
  /\ call' = [op |-> "onSave", slot |-> slot]
  /\ steps' = steps + 1
  /\ UNCHANGED <<version, time, sourceIdCounter, size, terrain, water, sources, terrainSeed,
                 vegetationSeed, generatedTerrains, scratchByLength, simParams, waterAtStart,
                 toolMode, brush, uiVars, loopVars>>

loadInstalls_AnySize(loaded, sz) == loaded.ok

\* main.ts lines 790-798: the loaded world is installed when there is one and its size is
\* the live world's
loadInstalls(loaded, sz) == loaded.ok /\ loaded.value.size = sz

\* onLoad (main.ts lines 787-820): an empty slot, a payload deserializeWorld rejects and a
\* world of another size leave the live world alone; otherwise the loaded world replaces it
\* and the climate is computed for its time and seed
OnLoad(slot) ==
  /\ steps < MaxEvents
  /\ LET loaded == IF slot \in DOMAIN slots THEN deserializeWorld(slots[slot])
                   ELSE Thrown("empty slot")
         installs == loadInstalls(loaded, size)
     IN /\ IF installs
           THEN /\ version' = loaded.value.version
                /\ size' = loaded.value.size
                /\ terrainSeed' = loaded.value.terrainSeed
                /\ terrain' = loaded.value.terrain
                /\ water' = loaded.value.water
                /\ sources' = loaded.value.sources
                /\ vegetationSeed' = loaded.value.vegetationSeed
                /\ time' = loaded.value.time
                /\ sourceIdCounter' = Len(loaded.value.sources) + 1
                /\ climateState' = climateOf(climateArguments(loaded.value.time,
                                                              loaded.value.terrainSeed))
                /\ humidityMap' = seedHumidityFromWorld(loaded.value.terrain,
                                                        loaded.value.water)
                /\ humidityScratch' = [index \in DOMAIN humidityScratch |-> 0] @@ << >>
                /\ humidityStepCounter' = 0
                /\ humidityCalls' = 0
           ELSE UNCHANGED <<version, size, terrainSeed, terrain, water, sources,
                            vegetationSeed, time, sourceIdCounter, climateState,
                            humidityVars, humidityCalls>>
        /\ call' = [op |-> "onLoad", slot |-> slot, installed |-> installs,
                    timeBefore |-> time, worldBefore |-> World, humidityBefore |-> Humidity,
                    sourceIdCounterBefore |-> sourceIdCounter]
  /\ steps' = steps + 1
  /\ UNCHANGED <<slots, generatedTerrains, scratchByLength, simParams, waterAtStart,
                 toolMode, brush, uiVars, manualRainIntensity, accumulator, isPainting>>

\* a direct call deserializeWorld(data) on bytes of any origin
Deserialize(data) ==
  /\ call' = [op |-> "deserializeWorld", data |-> data, result |-> deserializeWorld(data)]
  /\ UNCHANGED <<hostVars, size, terrain, water, sources, terrainSeed, vegetationSeed,
                 generatedTerrains, scratchByLength, simParams, waterAtStart, toolMode,
                 brush, steps>>

\* deserializeWorld(await serializeWorld(state)) on the live world
RoundTrip ==
  /\ call' = [op |-> "roundTrip", original |-> World,
              restored |-> deserializeWorld(serializeWorld(World))]
  /\ UNCHANGED <<hostVars, size, terrain, water, sources, terrainSeed, vegetationSeed,
                 generatedTerrains, scratchByLength, simParams, waterAtStart, toolMode,
                 brush, steps>>

NextStore ==
  \/ \E c \in PressSet(size) : ToggleWaterSource(c[1], c[2])
  \/ \E slot \in SlotSet : OnSave(slot)
  \/ \E slot \in SlotSet : OnLoad(slot)
  \/ RoundTrip

SpecStore == InitStore /\ [][NextStore]_vars

NextPayload ==
  \/ \E slot \in SlotSet : OnLoad(slot)
  \/ \E data \in PayloadSet : Deserialize(data)

SpecPayload == InitPayload /\ [][NextPayload]_vars

----------------------------------------------------------------------------
(* Properties of persistence                                               *)

Finite(v) == v[2] > 0

\* the data-model invariants of a WorldState
DataInvariants(state) ==
  /\ DOMAIN state.terrain = Cells(state.size)
  /\ DOMAIN state.water = Cells(state.size)
  /\ \A i \in DOMAIN state.water : RGe(state.water[i], Zero)

\* a valid WorldState: the data-model invariants, heights within the bounds, finite numbers
ValidWorld(state) ==
  /\ state.version = WORLD_VERSION
  /\ state.size > 0
  /\ DataInvariants(state)
  /\ \A i \in DOMAIN state.terrain : InTerrainRange(state.terrain[i])
  /\ Finite(state.terrainSeed) /\ Finite(state.vegetationSeed)
  /\ Finite(state.time) /\ RGe(state.time, Zero)
  /\ \A i \in DOMAIN state.sources :
       Finite(state.sources[i].rate) /\ RGe(state.sources[i].rate, Zero)

RoundTripped == call.op = "roundTrip" /\ ValidWorld(call.original)

\* C12: for every valid WorldState s, deserializeWorld(serializeWorld(s)) succeeds and
\* returns the size, version, terrainSeed, vegetationSeed, time and sources of s, and
\* terrain and water arrays equal to those of s element by element.
C12_RoundTrip ==
  RoundTripped =>
    /\ call.restored.ok
    /\ call.restored.value.size = call.original.size
    /\ call.restored.value.version = call.original.version
    /\ call.restored.value.terrainSeed = call.original.terrainSeed
    /\ call.restored.value.vegetationSeed = call.original.vegetationSeed
    /\ call.restored.value.time = call.original.time
    /\ call.restored.value.sources = call.original.sources
    /\ DOMAIN call.restored.value.terrain = DOMAIN call.original.terrain
    /\ DOMAIN call.restored.value.water = DOMAIN call.original.water
    /\ \A i \in DOMAIN call.original.terrain :
         /\ call.restored.value.terrain[i] = call.original.terrain[i]
         /\ call.restored.value.water[i] = call.original.water[i]

\* C12 witness: the round trip of a 5x5 world with two sources, standing water, a
\* fractional clock and a non-zero terrain seed, while a slot is saved
C12_Witness ==
  /\ RoundTripped
  /\ call.restored.ok
  /\ call.original.size = 5
  /\ Len(call.original.sources) = 2
  /\ call.original.time = Rat(1, 60)
  /\ call.original.terrainSeed = Num(123456)
  /\ \E i \in DOMAIN call.original.water : RGt(call.original.water[i], Zero)
  /\ 1 \in DOMAIN slots


\* the classes of corruption of a payload that parses to an object
RequiredFields == {"version", "size", "terrain", "water", "sources", "vegetationSeed", "time"}

MissingFields(data) == \E name \in RequiredFields : name \notin DOMAIN Content(data)

\* the numbers of a JSON value, at any depth
RECURSIVE NumbersIn(_)
NumbersIn(value) ==
  CASE Kind(value) = "number" -> {Content(value)}
    [] Kind(value) \in {"array", "object"} ->
         UNION {NumbersIn(Content(value)[k]) : k \in DOMAIN Content(value)}
    [] OTHER -> {}

NonFiniteNumbers(data) == \E v \in NumbersIn(data) : ~Finite(v)

WrongArrayLengths(data) ==
  /\ isFiniteNumber(Get(data, "size"))
  /\ \E name \in {"terrain", "water"} :
       /\ Kind(Get(data, name)) = "array"
       /\ Num(Len(Content(Get(data, name)))) #
            RMul(Content(Get(data, "size")), Content(Get(data, "size")))

InvalidSourceEntries(data) ==
  /\ Kind(Get(data, "sources")) = "array"
  /\ \E i \in DOMAIN Content(Get(data, "sources")) :
       invalidSourceEntry(Content(Get(data, "sources"))[i])

Deserialized == call.op = "deserializeWorld"

\* C13 as stated: deserializeWorld rejects every payload that has wrong array lengths,
\* missing fields or non-finite numbers, and its error tells a malformed shape, a
\* dimension mismatch and an invalid source entry apart.
C13_CorruptPayloadRejected ==
  (Deserialized /\ Kind(call.data) = "object") =>
    /\ (MissingFields(call.data) \/ NonFiniteNumbers(call.data)
          \/ WrongArrayLengths(call.data)) => ~call.result.ok
    /\ (~call.result.ok /\ call.result.error = "Corrupted world dimensions")
          => WrongArrayLengths(call.data)
    /\ (~call.result.ok /\ call.result.error = "Invalid source entry")
          => InvalidSourceEntries(call.data)
    /\ (~call.result.ok /\ call.result.error \in {"Incomplete world payload",
                                                  "Invalid source payload"})
          => (MissingFields(call.data)
                \/ \E name \in DOMAIN Content(call.data) :
                     Kind(Content(call.data)[name]) \notin {"object"} )

\* C14 as stated: every WorldState deserializeWorld returns, and every world a load
\* installs, has terrain.length = water.length = size*size and every water[i] >= 0.
C14_LoadedWorldInvariants ==
  /\ (Deserialized /\ call.result.ok) => DataInvariants(call.result.value)
  /\ (call.op = "onLoad" /\ call.installed) => DataInvariants(World)


----------------------------------------------------------------------------
(* Properties of the water sources of the host                             *)

\* C15 as stated: in every state reachable from the initial world by source toggles,
\* saves and loads, the ids of the entries of world.sources are pairwise distinct.
C15_SourceIdsDistinct ==
  \A i, j \in DOMAIN sources : i # j => sources[i].id # sources[j].id

----------------------------------------------------------------------------
(* Events of the running application  (main.ts, ui/hud.ts, input controller) *)

\* the variables of the world and its solver that no mode change touches
worldVars == <<size, terrain, water, sources, terrainSeed, vegetationSeed, generatedTerrains,
               scratchByLength, simParams, waterAtStart, brush>>

\* mutant: turning debug mode off leaves a manual mode as it is
modeAfterDebug_Kept(enabled, mode) == mode

\* main.ts lines 523-534: a mode after setDebugMode(enabled)
modeAfterDebug(enabled, mode) ==
  IF ~enabled /\ mode # "simulation" THEN "simulation" ELSE mode

\* main.ts lines 520-539: setDebugMode(enabled), h being the Hud as the caller left it
setDebugMode(h, enabled) ==
  /\ debugMode' = enabled
  /\ dayCycleMode' = modeAfterDebug(enabled, dayCycleMode)
  /\ weatherMode' = modeAfterDebug(enabled, weatherMode)
  /\ windMode' = modeAfterDebug(enabled, windMode)
  /\ hud' = LET h1 == Hud_setDebugMode(h, enabled)
                h2 == IF dayCycleMode' # dayCycleMode
                      THEN Hud_setDayCycleMode(h1, dayCycleMode') ELSE h1
                h3 == IF weatherMode' # weatherMode
                      THEN Hud_setWeatherMode(h2, weatherMode') ELSE h2
            IN IF windMode' # windMode THEN Hud_setWindMode(h3, windMode') ELSE h3
  /\ UNCHANGED <<toolMode, interactionMode, photoMode, interactionModeBeforePhoto,
                 modeAtPhotoEntry>>

\* mutant: leaving photo mode always returns to edit
restoredInteractionMode_Edit(before) == "edit"

\* main.ts line 866
restoredInteractionMode(before) == before

\* main.ts lines 852-873
setPhotoModeEnabled(enabled) ==
  IF photoMode = enabled THEN UNCHANGED <<uiVars, toolMode>>
  ELSE /\ photoMode' = enabled
       /\ IF enabled
          THEN /\ interactionModeBeforePhoto' = interactionMode
               /\ modeAtPhotoEntry' = interactionMode
               /\ interactionMode' = "camera"
          ELSE /\ interactionMode' = restoredInteractionMode(interactionModeBeforePhoto)
               /\ UNCHANGED <<interactionModeBeforePhoto, modeAtPhotoEntry>>
       /\ hud' = Hud_setInteractionMode(hud, interactionMode')
       /\ UNCHANGED <<toolMode, debugMode, dayCycleMode, weatherMode, windMode>>

\* main.ts lines 933-939
onToolKey(tool) ==
  /\ toolMode' = tool
  /\ interactionMode' = "edit"
  /\ hud' = Hud_setTool(Hud_setInteractionMode(hud, "edit"), tool)
  /\ UNCHANGED <<debugMode, dayCycleMode, weatherMode, windMode, photoMode,
                 interactionModeBeforePhoto, modeAtPhotoEntry>>

\* main.ts lines 940-944
onInteractionModeKey(mode) ==
  /\ interactionMode' = mode
  /\ hud' = Hud_setInteractionMode(hud, mode)
  /\ UNCHANGED <<toolMode, debugMode, dayCycleMode, weatherMode, windMode, photoMode,
                 interactionModeBeforePhoto, modeAtPhotoEntry>>

KeySet == {"p", "Escape", "1", "2", "3", "4", "0", "d"}

toolOfKey(key) ==
  CASE key = "1" -> "raise" [] key = "2" -> "lower" [] key = "3" -> "flatten"
    [] key = "4" -> "waterSource"

\* InputController.onKeyDown (lines 156-227) on the window, no modifier key held
KeyDown(key) ==
  /\ steps < MaxEvents
  /\ IF key = "p" THEN setPhotoModeEnabled(~photoMode)
     ELSE IF photoMode
          THEN IF key = "Escape" THEN setPhotoModeEnabled(~photoMode)
               ELSE UNCHANGED <<uiVars, toolMode>>
          ELSE IF key \in {"1", "2", "3", "4"} THEN onToolKey(toolOfKey(key))
               ELSE IF key = "0" THEN onInteractionModeKey("camera")
               ELSE IF key = "d" THEN setDebugMode(hud, ~debugMode)
               ELSE UNCHANGED <<uiVars, toolMode>>
  /\ call' = [op |-> "onKeyDown", key |-> key, photoMode |-> photoMode,
              debugMode |-> debugMode, modes |-> <<dayCycleMode, weatherMode, windMode>>]
  /\ steps' = steps + 1
  /\ UNCHANGED <<worldVars, storeVars, loopVars>>

\* a click on a tool button of the HUD (hud.ts lines 371-376, main.ts lines 669-679)
ToolButtonClick(tool) ==
  /\ steps < MaxEvents
  /\ toolMode' = tool
  /\ interactionMode' = "edit"
  /\ hud' = Hud_setInteractionMode(Hud_setTool(Hud_setInteractionMode(hud, "edit"), tool),
                                   "edit")
  /\ call' = [op |-> "toolButtonClick", tool |-> tool]
  /\ steps' = steps + 1
  /\ UNCHANGED <<debugMode, dayCycleMode, weatherMode, windMode, photoMode,
                 interactionModeBeforePhoto, modeAtPhotoEntry, worldVars, storeVars, loopVars>>

\* a click on the camera button (hud.ts lines 392-395, main.ts lines 676-679)
CameraButtonClick ==
  /\ steps < MaxEvents
  /\ interactionMode' = "camera"
  /\ hud' = Hud_setInteractionMode(hud, "camera")
  /\ call' = [op |-> "cameraButtonClick"]
  /\ steps' = steps + 1
  /\ UNCHANGED <<toolMode, debugMode, dayCycleMode, weatherMode, windMode, photoMode,
                 interactionModeBeforePhoto, modeAtPhotoEntry, worldVars, storeVars, loopVars>>

\* a click on the debug button (hud.ts lines 145-149, main.ts lines 680-683)
DebugButtonClick ==
  /\ steps < MaxEvents
  /\ setDebugMode(Hud_setDebugMode(hud, ~hud.debugMode), ~hud.debugMode)
  /\ call' = [op |-> "debugButtonClick", debugMode |-> debugMode,
              modes |-> <<dayCycleMode, weatherMode, windMode>>]
  /\ steps' = steps + 1
  /\ UNCHANGED <<worldVars, storeVars, loopVars>>

ModeSet == {"simulation", "manual"}

\* the user picks an option of the day cycle <select>, which a disabled element does not
\* allow (hud.ts lines 171-175, main.ts lines 684-692)
DayCycleModeChange(mode) ==
  /\ steps < MaxEvents
  /\ ~hud.dayCycleModeInputDisabled
  /\ dayCycleMode' = mode
  /\ hud' = Hud_setDayCycleMode(Hud_setDayCycleMode(hud, mode), mode)
  /\ call' = [op |-> "dayCycleModeChange", mode |-> mode]
  /\ steps' = steps + 1
  /\ UNCHANGED <<toolMode, interactionMode, debugMode, weatherMode, windMode, photoMode,
                 interactionModeBeforePhoto, modeAtPhotoEntry, worldVars, storeVars, loopVars>>

\* the weather <select> (hud.ts lines 216-220, main.ts lines 700-710)
WeatherModeChange(mode) ==
  /\ steps < MaxEvents
  /\ ~hud.weatherModeInputDisabled
  /\ weatherMode' = mode
  /\ hud' = Hud_setWeatherMode(Hud_setWeatherMode(hud, mode), mode)
  /\ call' = [op |-> "weatherModeChange", mode |-> mode]
  /\ steps' = steps + 1
  /\ UNCHANGED <<toolMode, interactionMode, debugMode, dayCycleMode, windMode, photoMode,
                 interactionModeBeforePhoto, modeAtPhotoEntry, worldVars, storeVars, loopVars>>

\* the wind <select> (hud.ts lines 278-282, main.ts lines 731-741)
WindModeChange(mode) ==
  /\ steps < MaxEvents
  /\ ~hud.windModeInputDisabled
  /\ windMode' = mode
  /\ hud' = Hud_setWindMode(Hud_setWindMode(hud, mode), mode)
  /\ call' = [op |-> "windModeChange", mode |-> mode]
  /\ steps' = steps + 1
  /\ UNCHANGED <<toolMode, interactionMode, debugMode, dayCycleMode, weatherMode, photoMode,
                 interactionModeBeforePhoto, modeAtPhotoEntry, worldVars, storeVars, loopVars>>

\* values the rain slider (min 0, max 1, step 0.01) can be dragged to
RainSet == {Zero, Rat(2, 100), Rat(4, 100), One}

\* the rain slider moves (hud.ts lines 252-256, main.ts lines 720-729)
ManualRainInput(value) ==
  /\ steps < MaxEvents
  /\ ~hud.manualRainInputDisabled
  /\ manualRainIntensity' = saturate(clamp(value, Zero, One))
  /\ hud' = Hud_setManualRainIntensity(Hud_setManualRainIntensity(hud, clamp(value, Zero, One)),
                                       manualRainIntensity')
  /\ call' = [op |-> "manualRainInput", value |-> value]
  /\ steps' = steps + 1
  /\ UNCHANGED <<toolMode, interactionMode, debugMode, dayCycleMode, weatherMode, windMode,
                 photoMode, interactionModeBeforePhoto, modeAtPhotoEntry, accumulator,
                 climateState, humidityVars, humidityCalls, isPainting, worldVars, storeVars>>

----------------------------------------------------------------------------
(* The frame loop  (main.ts, animate)                                      *)

\* TLC's integers have 32 bits.  A pass of the loop in which it rains is evaluated on
\* heights counted in parts of a height unit, HeightUnits parts to one unit: every term of
\* applyRainfall and stepWater is linear in the heights, the water depths and the rates
\* (rain, evaporation, edgeDrain, source rate), so the result is the same number, and
\* rain of a millionth of a unit keeps a denominator TLC can hold.
HeightUnits == 3125 * 1000

unitsFor(rainIntensity) == IF RLe(rainIntensity, Rat(2, 100)) THEN One ELSE Num(HeightUnits)

InUnits(arr, units) == [i \in DOMAIN arr |-> RMul(arr[i], units)] @@ << >>
FromUnits(arr, units) == [i \in DOMAIN arr |-> RDiv(arr[i], units)] @@ << >>

\* A value the code computes once and reads several times is bound as the variable of a
\* one-element set: CHOOSE r \in {body : v \in {value}} : TRUE.

\* stepWater(world, simParams) on a water field counted in parts
stepWaterInUnits(sz, t, w, srcs, cache, params, units) ==
  CHOOSE stepped \in
    { stepWater(sz, tParts, w, srcsParts, cache, paramsParts) :
        tParts \in {InUnits(t, units)},
        srcsParts \in {[i \in DOMAIN srcs |-> [srcs[i] EXCEPT !.rate = RMul(@, units)]]},
        paramsParts \in {[params EXCEPT !.evaporation = RMul(@, units),
                                        !.edgeDrain = RMul(@, units)]} } : TRUE

\* main.ts lines 1028-1029: rain, then the solver, at the rain intensity of the pass
rainAndStep(w, cache, rainIntensity, units) ==
  CHOOSE result \in
    { CHOOSE result \in
        { [rainedParts |-> rained, water |-> FromUnits(stepped.water, units),
           delta |-> FromUnits(stepped.delta, units)] :
            stepped \in {stepWaterInUnits(size, terrain, rained, sources, cache, simParams,
                                          units)} } : TRUE :
        rained \in {applyRainfall(terrain, InUnits(w, units), rainIntensity, simParams.dt,
                                  units)} } : TRUE

advanceTime_Twice(t, dt) == RAdd(t, RAdd(dt, dt))

\* main.ts line 1031: world.time += simParams.dt
advanceTime(t, dt) == RAdd(t, dt)

\* main.ts lines 1021-1031: one pass of the loop body on the water field w at world time t
fixedStep(w, cache, t, hum) ==
  CHOOSE pass \in
    { CHOOSE pass \in
        { CHOOSE pass \in
            { [arguments |-> arguments, rainIntensity |-> rainIntensity, before |-> w,
               units |-> unitsFor(rainIntensity), rainedParts |-> result.rainedParts,
               water |-> result.water, delta |-> result.delta, timeBefore |-> t,
               humidityBefore |-> hum,
               humidity |-> updateHumidity(hum, size, terrain, result.water, simParams.dt,
                                           rainIntensity),
               time |-> advanceTime(t, simParams.dt)] :
                result \in {rainAndStep(w, cache, rainIntensity, unitsFor(rainIntensity))} }
            : TRUE :
            rainIntensity \in {climateOf(arguments).rainIntensity} } : TRUE :
        arguments \in {climateArguments(t, terrainSeed)} } : TRUE

\* main.ts lines 1020-1035: the while loop; `passes` collects what each pass did
RECURSIVE fixedSteps(_, _, _, _, _, _)
fixedSteps(w, cache, t, hum, acc, passes) ==
  IF ~RGe(acc, simParams.dt)
  THEN [water |-> w, scratchByLength |-> cache, time |-> t, humidity |-> hum,
        accumulator |-> acc, passes |-> passes]
  ELSE CHOOSE looped \in
         { fixedSteps(pass.water,
                      [n \in (DOMAIN cache) \cup {size * size} |->
                         IF n = size * size THEN pass.delta ELSE cache[n]] @@ << >>,
                      pass.time,
                      [humidityMap |-> pass.humidity.humidityMap,
                       humidityScratch |-> pass.humidity.humidityScratch,
                       humidityStepCounter |-> pass.humidity.humidityStepCounter],
                      RSub(acc, simParams.dt), Append(passes, pass)) :
             pass \in {fixedStep(w, cache, t, hum)} } : TRUE

\* frame intervals: deltaSeconds = min(0.1, (frameTime - lastFrameTime) / 1000)
DeltaSet == {Zero, Rat(1, 120), Rat(1, 60), Rat(1, 30)}

Dry == AllZero(water) /\ ActiveSources(sources) = {}

\* it rains at the world time t
Rains(t) == RGt(climateOf(climateArguments(t, terrainSeed)).rainIntensity, Rat(2, 100))

\* a frame is followed only where TLC can hold the stepped water: from water values k/d
\* with d <= MaxDenominator; through rain only in a world without water and without an
\* active source whose cells have no lower neighbour; through a second pass only in a
\* world without water and source; over terrain heights k/d with d <= MaxDenominator
Computable(deltaSeconds) ==
  LET passes == MathFloor(RDiv(RAdd(accumulator, deltaSeconds), simParams.dt))
  IN passes = 0
     \/ (Exact(water) /\ IF Rains(time)
                          THEN Dry /\ Exact(terrain) /\ (size = 1 \/ AllZero(terrain))
                          ELSE Dry \/ (passes = 1 /\ Exact(terrain)))

\* animate(frameTime), lines 1015-1075: the fixed steps the elapsed time pays for, then the
\* climate of the frame that is rendered
Animate(deltaSeconds) ==
  /\ steps < MaxEvents
  /\ Computable(deltaSeconds)
  /\ \E looped \in {fixedSteps(water, scratchByLength, time, Humidity,
                                RAdd(accumulator, deltaSeconds), << >>)} :
       /\ water' = looped.water
       /\ scratchByLength' = looped.scratchByLength
       /\ time' = looped.time
       /\ accumulator' = looped.accumulator
       /\ humidityMap' = looped.humidity.humidityMap
       /\ humidityScratch' = looped.humidity.humidityScratch
       /\ humidityStepCounter' = looped.humidity.humidityStepCounter
       /\ humidityCalls' = humidityCalls + Len(looped.passes)
       /\ \E arguments \in {climateArguments(looped.time, terrainSeed)} :
            /\ climateState' = climateOf(arguments)
            /\ call' = [op |-> "animate", deltaSeconds |-> deltaSeconds,
                        timeBefore |-> time, waterBefore |-> water,
                        callsBefore |-> humidityCalls,
                        passes |-> looped.passes, arguments |-> arguments]
  /\ steps' = steps + 1
  /\ UNCHANGED <<size, terrain, sources, terrainSeed, vegetationSeed, generatedTerrains,
                 simParams, waterAtStart, toolMode, brush, version, slots, sourceIdCounter,
                 uiVars, manualRainIntensity, isPainting>>

\* worlds as createInitialWorld leaves them on a grid too small for an initial source:
\* no water, no source
LoopWorldSet ==
  { [size |-> 2, terrainSeed |-> Num(424242), vegetationSeed |-> Num(7500000),
     terrain |-> ArrayOf(<<Num(-8), Num(18), Zero, Num(5)>>)],
    [size |-> 2, terrainSeed |-> Num(123456), vegetationSeed |-> Zero,
     terrain |-> ZeroArray(4)],
    [size |-> 1, terrainSeed |-> Zero, vegetationSeed |-> Num(987),
     terrain |-> ArrayOf(<<Rat(1, 2)>>)] }

InitApp ==
  /\ generatedTerrains = << >>
  /\ \E w \in LoopWorldSet :
       /\ size = w.size
       /\ terrain = w.terrain
       /\ terrainSeed = w.terrainSeed
       /\ vegetationSeed = w.vegetationSeed
  /\ water = ZeroArray(size * size)
  /\ sources = << >>
  /\ waterAtStart = water
  /\ scratchByLength = << >>
  /\ simParams = DefaultParams
  /\ toolMode = "raise"
  /\ brush = DefaultBrush
  /\ call = IdleCall
  /\ steps = 0
  /\ HostInit

\* a pointer press in edit mode with a terrain tool paints (controller lines 110-123,
\* main.ts lines 919-935)
PaintStroke(cx, cy) ==
  /\ interactionMode # "camera"
  /\ toolMode # "waterSource"
  /\ ApplyBrush(cx, cy)

\* the tools picked and the cell pressed while the loop is followed
LoopToolSet == {"raise", "waterSource"}
LoopPress == <<0, 0>>

MaxLoopEvents == 4   \* events per run while the loop is followed

InLoopRun == steps < MaxLoopEvents

NextLoop ==
  \/ InLoopRun /\ \E deltaSeconds \in DeltaSet : Animate(deltaSeconds)
  \/ InLoopRun /\ DebugButtonClick
  \/ InLoopRun /\ \E mode \in ModeSet : WeatherModeChange(mode)
  \/ InLoopRun /\ \E value \in RainSet : ManualRainInput(value)
  \/ InLoopRun /\ \E tool \in LoopToolSet : ToolButtonClick(tool)
  \/ InLoopRun /\ PaintStroke(Num(LoopPress[1]), Num(LoopPress[2]))
  \/ InLoopRun /\ ToggleWaterSource(LoopPress[1], LoopPress[2])
  \/ InLoopRun /\ \E slot \in SlotSet : OnSave(slot)
  \/ InLoopRun /\ \E slot \in SlotSet : OnLoad(slot)

SpecLoop == InitApp /\ [][NextLoop]_vars

NextUi ==
  \/ \E key \in KeySet : KeyDown(key)
  \/ \E tool \in ToolModes : ToolButtonClick(tool)
  \/ CameraButtonClick
  \/ DebugButtonClick
  \/ \E mode \in ModeSet : DayCycleModeChange(mode)
  \/ \E mode \in ModeSet : WeatherModeChange(mode)
  \/ \E mode \in ModeSet : WindModeChange(mode)
  \/ \E deltaSeconds \in {Zero, Rat(1, 60)} : Animate(deltaSeconds)

\* the modes are followed on the smallest world
InitUi == InitApp /\ size = 1

SpecUi == InitUi /\ [][NextUi]_vars

----------------------------------------------------------------------------
(* Properties of the modes and the HUD                                     *)

ModesSimulated ==
  dayCycleMode = "simulation" /\ weatherMode = "simulation" /\ windMode = "simulation"

\* the arguments of a createClimateState call carry no manual value
NoOverride(arguments) ==
  /\ arguments.weatherOverride = Null
  /\ arguments.windOverride = Null
  /\ arguments.dayPhase = getSimulatedDayPhase(arguments.time)

\* debug mode was on and the last event turned it off
DebugTurnedOff ==
  /\ call.op \in {"onKeyDown", "debugButtonClick"}
  /\ call.debugMode
  /\ ~debugMode

\* C16: whenever debug mode is off, the day-cycle, weather and wind modes are all
\* 'simulation', and every createClimateState call of a frame (in the fixed steps and for
\* the rendered frame) gets the simulated day phase and no weather or wind override; so
\* turning debug mode off resets each mode from 'manual' to 'simulation'.
C16_DebugOffMeansSimulation ==
  ~debugMode =>
    /\ ModesSimulated
    /\ hud.dayCycleMode = "simulation" /\ hud.weatherMode = "simulation"
    /\ hud.windMode = "simulation"
    /\ call.op = "animate" =>
         /\ NoOverride(call.arguments)
         /\ \A i \in DOMAIN call.passes : NoOverride(call.passes[i].arguments)

\* debug mode has just been turned off while all three modes were manual
C16_Witness ==
  /\ DebugTurnedOff
  /\ call.modes = <<"manual", "manual", "manual">>
  /\ ModesSimulated

\* a frame with a fixed step is computed with debug mode off after a manual weather mode
C16_FrameWitness ==
  /\ ~debugMode
  /\ call.op = "animate"
  /\ Len(call.passes) > 0
  /\ NoOverride(call.arguments)

\* photo mode was on and the last key left it
LeftPhotoMode == call.op = "onKeyDown" /\ call.photoMode /\ ~photoMode

\* C17: whenever a key (P or Escape) has just made the application leave photo mode, the
\* interaction mode equals the interaction mode that was active when photo mode was
\* entered.
C17_PhotoModeRestoresMode == LeftPhotoMode => interactionMode = modeAtPhotoEntry

\* photo mode, entered from camera mode, has been left with Escape, and the mode is camera
C17_Witness ==
  /\ LeftPhotoMode
  /\ call.key = "Escape"
  /\ modeAtPhotoEntry = "camera"
  /\ interactionMode = "camera"

\* photo mode, entered from edit mode, has been left with P
C17_EditWitness == LeftPhotoMode /\ call.key = "p" /\ interactionMode = "edit"

\* C18: in every state the keys and the HUD buttons lead to, the Strength row is visible
\* exactly when the mode is edit and the tool is not waterSource, the Flatten row exactly
\* when the mode is edit and the tool is flatten, and the Source rate row exactly when the
\* mode is edit and the tool is waterSource.
C18_ContextualRows ==
  /\ ~hud.strengthRowHidden <=> (interactionMode = "edit" /\ toolMode # "waterSource")
  /\ ~hud.flattenRowHidden <=> (interactionMode = "edit" /\ toolMode = "flatten")
  /\ ~hud.sourceRateRowHidden <=> (interactionMode = "edit" /\ toolMode = "waterSource")

\* the camera key hid every row
C18_Witness ==
  /\ call.op = "onKeyDown"
  /\ call.key = "0"
  /\ interactionMode = "camera"
  /\ toolMode = "flatten"
  /\ hud.strengthRowHidden /\ hud.flattenRowHidden /\ hud.sourceRateRowHidden

\* a click on the Source button in camera mode shows the Source rate row alone
C18_ButtonWitness ==
  /\ call.op = "toolButtonClick"
  /\ toolMode = "waterSource"
  /\ ~hud.sourceRateRowHidden /\ hud.strengthRowHidden /\ hud.flattenRowHidden


----------------------------------------------------------------------------
(* Properties of the frame loop                                            *)

\* the frame just drawn ran at least one pass and it rained in every pass of it
RainedThroughFrame ==
  /\ call.op = "animate"
  /\ Len(call.passes) > 0
  /\ \A i \in DOMAIN call.passes : RGt(call.passes[i].rainIntensity, Rat(2, 100))

\* C19: while it rains (intensity above 0.02) under the default SimParams, the total water
\* of the world after a run of fixed steps is greater than before it, whatever the world
C19_RainRaisesTotalWater ==
  (RainedThroughFrame /\ simParams = DefaultParams)
    => RGt(totalWater(water), totalWater(call.waterBefore))

\* what the code does in a world without water and without an active source: every pass
\* rains onto every cell, and the evaporation of the same pass takes all of it back
RainEvaporates ==
  (RainedThroughFrame /\ simParams = DefaultParams /\ ActiveSources(sources) = {}
     /\ AllZero(call.waterBefore))
    => /\ \A i \in DOMAIN call.passes :
            \A c \in DOMAIN call.passes[i].rainedParts :
              RGt(call.passes[i].rainedParts[c], Zero)
       /\ AllZero(water)

RainEvaporatesWitness ==
  RainedThroughFrame /\ AllZero(call.waterBefore) /\ Len(call.passes) = 2
    /\ call.passes[1].rainIntensity = One


\* the clock through a frame: the loop runs floor((accumulator + deltaSeconds) / dt) passes;
\* each pass rains and runs the solver at the clock it found and then adds dt to it
ClockThroughFrame ==
  LET passes == call'.passes
  IN /\ call'.timeBefore = time
     /\ Len(passes) = MathFloor(RDiv(RAdd(accumulator, call'.deltaSeconds), simParams.dt))
     /\ \A i \in DOMAIN passes :
          /\ passes[i].timeBefore = (IF i = 1 THEN time ELSE passes[i - 1].time)
          /\ passes[i].arguments.time = passes[i].timeBefore
          /\ passes[i].time = RAdd(passes[i].timeBefore, simParams.dt)
     /\ time' = (IF passes = << >> THEN time ELSE passes[Len(passes)].time)

\* the clock through a load that installs the saved world: the clock saved in the slot
ClockThroughLoad ==
  /\ call'.installed
  /\ call'.slot \in DOMAIN slots
  /\ time' = deserializeWorld(slots[call'.slot]).value.time

\* C20 as stated: world.time never decreases and only the fixed steps of the frame loop
\* change it, each adding exactly simParams.dt after rain and solver; no brush stroke,
\* source toggle, mode change, render, save (or any other event) changes it
C20_ClockOnlyBySteps ==
  [][ /\ RGe(time', time)
      /\ IF call'.op = "animate" THEN ClockThroughFrame
         ELSE time' = time ]_vars

\* C20, amended: world.time is changed only by the fixed steps of the frame loop, each
\* adding exactly simParams.dt after rain and solver, and by a load, which installs the
\* clock of the saved world (possibly an earlier one); between loads it never decreases,
\* and no brush stroke, source toggle, mode change, render or save changes it
C20_ClockByStepsOrLoad ==
  [][ CASE call'.op = "animate" -> ClockThroughFrame /\ RGe(time', time)
        [] call'.op = "onLoad" ->
             ClockThroughLoad \/ (~call'.installed /\ time' = time)
        [] OTHER -> time' = time ]_vars

\* a load has put the clock back to the time of a save made after the loop had advanced it
C20_Witness ==
  /\ call.op = "onLoad"
  /\ call.installed
  /\ RGt(time, Zero)
  /\ RLt(time, call.timeBefore)

\* a frame of two passes has advanced the clock by 2 * dt
C20_FrameWitness ==
  /\ call.op = "animate"
  /\ Len(call.passes) = 2
  /\ time = RAdd(call.timeBefore, RMul(Num(2), simParams.dt))


----------------------------------------------------------------------------
(* The outflow pass and its visiting order                                 *)

\* mutant: a transfer is applied to the water field at once, so later cells read it
passWater_Updated(w, delta) == [i \in DOMAIN w |-> RAdd(w[i], delta[i])]

\* lines 76-156: the water field a cell of the pass reads is state.water, which the pass
\* does not write (every write of the pass is to delta)
passWater(w, delta) == w

\* lines 73-156 with the cells visited in the order `order` (a sequence of cell indices)
RECURSIVE outflowPassIn(_, _, _, _, _, _, _, _)
outflowPassIn(delta, w, t, sz, order, k, flowRate, dt) ==
  IF k > Len(order) THEN delta
  ELSE outflowPassIn(applyTransfers(delta, order[k],
                                    cellTransfers(passWater(w, delta), t, sz, order[k] % sz,
                                                  order[k] \div sz, flowRate, dt), 1),
                     w, t, sz, order, k + 1, flowRate, dt)

\* lines 157-175: the water field the second loop leaves, from the injected field and delta
waterAfterPass(sz, injected, delta, params) ==
  [i \in Cells(sz) |->
     nextWater(RAdd(injected[i], delta[i]), sz, i % sz, i \div sz,
               clamp(RSub(One, RMul(MathMax(Zero, params.damping), stepDt(params))), Zero, One),
               RMul(MathMax(Zero, params.evaporation), stepDt(params)),
               MathMax(Zero, Coalesce(params.seepage, Zero)),
               MathMax(Zero, Coalesce(params.edgeDrain, Zero)), stepDt(params))]

\* the visiting orders compared: every order of the cells of a grid of up to 4 cells;
\* on larger grids row-major, its reverse, column-major, and odd cells before even ones
VisitOrders(sz) ==
  LET n == sz * sz
  IN IF n <= 4
     THEN { order \in [1 .. n -> Cells(sz)] :
              \A a, b \in 1 .. n : a # b => order[a] # order[b] }
     ELSE { [k \in 1 .. n |-> k - 1],
            [k \in 1 .. n |-> n - k],
            [k \in 1 .. n |-> ((k - 1) % sz) * sz + ((k - 1) \div sz)],
            [k \in 1 .. n |-> IF 2 * k <= n THEN 2 * k - 1 ELSE 2 * (k - n \div 2) - 2] }

\* C21: the outflow pass reads water and terrain only and accumulates every transfer in a
\* delta buffer that starts at zero, so whatever the order in which the cells are visited,
\* delta and the water field after the tick are the ones stepWater produced
C21_VisitOrderIrrelevant ==
  Stepped =>
    \A order \in VisitOrders(size) :
      LET delta == outflowPassIn(ZeroArray(size * size), call.injected, terrain, size, order,
                                 1, stepFlowRate(simParams), stepDt(simParams))
      IN /\ delta = call.delta
         /\ waterAfterPass(size, call.injected, delta, simParams) = water

\* a tick in which a cell that received water from a neighbour also sent water on: the
\* case in which a read of freshly written water would depend on the order
C21_Witness ==
  /\ Stepped
  /\ size = 3
  /\ \E i, j \in Cells(size) :
       /\ i # j
       /\ cellTransfers(call.injected, terrain, size, i % size, i \div size,
                        stepFlowRate(simParams), stepDt(simParams)) # << >>
       /\ \E k \in 1 .. 4 :
            LET sent == cellTransfers(call.injected, terrain, size, j % size, j \div size,
                                      stepFlowRate(simParams), stepDt(simParams))
            IN sent # << >> /\ sent[k].to = i /\ RGt(sent[k].amount, Zero)


----------------------------------------------------------------------------
(* Where the water of a tick goes                                          *)

\* the cells next to cell i on the grid: one step left, right, up or down, inside the grid
FourNeighbours(sz, i) ==
  { j \in Cells(sz) :
      \/ (j \div sz = i \div sz /\ (j % sz = (i % sz) + 1 \/ j % sz = (i % sz) - 1))
      \/ (j % sz = i % sz /\ (j \div sz = (i \div sz) + 1 \/ j \div sz = (i \div sz) - 1)) }

\* total height (terrain + water) of cell i as the outflow pass of the last tick read it
HeightInPass(i) == RAdd(terrain[i], call.injected[i])

\* the neighbours of cell i that stood strictly lower in the last tick
LowerNeighbours(i) ==
  { j \in FourNeighbours(size, i) : RLt(HeightInPass(j), HeightInPass(i)) }

TransfersOf(i) ==
  cellTransfers(call.injected, terrain, size, i % size, i \div size,
                stepFlowRate(simParams), stepDt(simParams))

\* the water the cells from j on sent to cell i in the last tick
RECURSIVE ReceivedFrom(_, _)
ReceivedFrom(i, j) ==
  IF j >= size * size THEN Zero
  ELSE LET sent == TransfersOf(j)
           toI == [k \in DOMAIN sent |->
                     [to |-> sent[k].to,
                      amount |-> IF sent[k].to = i THEN sent[k].amount ELSE Zero]]
       IN RAdd(SumAmounts(toI, 1), ReceivedFrom(i, j + 1))

\* C22: a cell transfers water only to existing 4-neighbours whose total height is strictly
\* lower than its own; a cell without water, or with no lower neighbour, transfers nothing;
\* delta is the water received minus the water sent, so nothing wraps around or is
\* reflected at the border
C22_TransfersOnlyDownhill ==
  Stepped =>
    \A i \in Cells(size) :
      /\ \A k \in DOMAIN TransfersOf(i) :
           RGt(TransfersOf(i)[k].amount, Zero) => TransfersOf(i)[k].to \in LowerNeighbours(i)
      /\ (RLe(call.injected[i], Zero) \/ LowerNeighbours(i) = {})
           => (SentBy(i) = Zero /\ RGe(call.delta[i], Zero))
      /\ RGt(call.delta[i], Zero)
           => \E j \in FourNeighbours(size, i) :
                i \in LowerNeighbours(j) /\ RGt(call.injected[j], Zero)
      /\ call.delta[i] = RSub(ReceivedFrom(i, 0), SentBy(i))

\* a cell at the right border sent water while the first cell of the next row, which a
\* wrapped index would reach, stood lower and received nothing from it
C22_Witness ==
  /\ Stepped
  /\ size = 3
  /\ \E i \in Cells(size) :
       /\ i % size = size - 1
       /\ i + 1 \in Cells(size)
       /\ RGt(SentBy(i), Zero)
       /\ RLt(HeightInPass(i + 1), HeightInPass(i))
       /\ call.delta[i + 1] = Zero

\* a cell held water and every neighbour stood equal or higher: it sent nothing
C22_LevelWitness ==
  /\ Stepped
  /\ \E i \in Cells(size) :
       /\ RGt(call.injected[i], Zero)
       /\ FourNeighbours(size, i) # {}
       /\ LowerNeighbours(i) = {}
       /\ \E j \in FourNeighbours(size, i) : HeightInPass(j) = HeightInPass(i)


----------------------------------------------------------------------------
(* The guard on the edge drain                                             *)

\* the parameters of the last tick as stepWater guards them (lines 49-54, 157-158)
TickDampingFactor ==
  clamp(RSub(One, RMul(MathMax(Zero, simParams.damping), stepDt(simParams))), Zero, One)
TickEvaporationLoss == RMul(MathMax(Zero, simParams.evaporation), stepDt(simParams))
TickSeepage == MathMax(Zero, Coalesce(simParams.seepage, Zero))
TickEdgeDrain == MathMax(Zero, Coalesce(simParams.edgeDrain, Zero))

\* cell i of the last tick after damping, evaporation and seepage, before the edge drain
BeforeDrain(i) ==
  afterLosses(call.withFlow[i], TickDampingFactor, TickEvaporationLoss, TickSeepage,
              stepDt(simParams))

\* C23: for every state and all (finite) non-negative SimParams, stepWater with the
\* `next > 0` guard on the edge drain and the version that subtracts edgeDrain * dt on
\* every border cell leave the same water field after the floor at 0
C23_EdgeGuardRedundant ==
  Stepped =>
    \A i \in Cells(size) :
      nextWaterUnguarded(call.withFlow[i], size, i % size, i \div size, TickDampingFactor,
                         TickEvaporationLoss, TickSeepage, TickEdgeDrain, stepDt(simParams))
        = water[i]

\* a border cell whose water was at or below 0 before the drain, with a positive drain:
\* the guard skipped the subtraction that the unguarded version makes
C23_Witness ==
  /\ Stepped
  /\ RGt(TickEdgeDrain, Zero)
  /\ \E i \in Cells(size) :
       /\ isEdgeCell(size, i % size, i \div size)
       /\ RLe(BeforeDrain(i), Zero)
       /\ RGt(call.withFlow[i], Zero)

\* a border cell whose water was below 0 before the drain
C23_NegativeWitness ==
  /\ Stepped
  /\ RGt(TickEdgeDrain, Zero)
  /\ \E i \in Cells(size) : RLt(BeforeDrain(i), Zero)


----------------------------------------------------------------------------
(* The losses the sampler reports and the losses a tick applies            *)

\* the tick stepWater would make on the state the sampler has just read
TickOfSample == stepWater(size, terrain, water, sources, scratchByLength, simParams)

\* lines 165 and 169-171: the seepage loss and the edge drain the tick subtracts from cell i
SeepageLossInTick(i) ==
  RMul(RMul(TickOfSample.withFlow[i], TickSeepage), stepDt(simParams))

EdgeDrainInTick(i) ==
  IF /\ isEdgeCell(size, i % size, i \div size)
     /\ RGt(afterLosses(TickOfSample.withFlow[i], TickDampingFactor, TickEvaporationLoss,
                        TickSeepage, stepDt(simParams)), Zero)
    THEN RMul(TickEdgeDrain, stepDt(simParams))
    ELSE Zero

\* C24: for every in-bounds cell the sampler reports the losses that the stepWater call of
\* this tick, on the same state and params, applies to the cell: seepageLossPerStep is the
\* seepage loss subtracted from it and edgeDrainLossPerStep the edge drain subtracted from
\* it (0 for interior cells)
C24_SamplerReportsTickLosses ==
  (Sampled /\ call.result # Null) =>
    /\ call.result.seepageLossPerStep = SeepageLossInTick(call.result.index)
    /\ call.result.edgeDrainLossPerStep = EdgeDrainInTick(call.result.index)

\* what the sampler's figures are: the seepage of the water the cell holds before the
\* tick's flow, and the full edge drain of a border cell whether or not the tick applies it;
\* they are the tick's own where the flow leaves the cell's water as it is and the border
\* cell stays above 0
SamplerLossesBeforeFlow ==
  (Sampled /\ call.result # Null) =>
    LET i == call.result.index
    IN /\ call.result.seepageLossPerStep
            = RMul(RMul(water[i], TickSeepage), stepDt(simParams))
       /\ TickOfSample.withFlow[i] = water[i]
            => call.result.seepageLossPerStep = SeepageLossInTick(i)
       /\ (call.result.isEdge => RGt(EdgeDrainInTick(i), Zero) \/ TickEdgeDrain = Zero)
            => call.result.edgeDrainLossPerStep = EdgeDrainInTick(i)

SamplerLossesWitness ==
  /\ Sampled
  /\ call.result # Null
  /\ RGt(TickSeepage, Zero)
  /\ TickOfSample.withFlow[call.result.index] # water[call.result.index]


----------------------------------------------------------------------------
(* The humidity field through frames, saves and loads                      *)

\* frame intervals that pay for one, two and four fixed steps
HumidDeltaSet == {Rat(1, 60), Rat(1, 30), Rat(1, 15)}

\* a world an earlier session of the program saved: wet, some time into the simulation
SavedWorld(sz, t) ==
  [version |-> WORLD_VERSION, size |-> sz, terrainSeed |-> Num(424242),
   terrain |-> t,
   water |-> [i \in DOMAIN t |-> IF i = 0 THEN Rat(1, 2) ELSE IF i = 1 THEN Zero
                                  ELSE Rat(1, 8)] @@ << >>,
   sources |-> << >>, vegetationSeed |-> Num(7500000), time |-> Rat(5, 2)]

\* the host at start-up; the object store is empty or holds in slot 1 what an earlier
\* session saved there
InitHumid ==
  /\ generatedTerrains = << >>
  /\ \E w \in LoopWorldSet :
       /\ size = w.size
       /\ terrain = w.terrain
       /\ terrainSeed = w.terrainSeed
       /\ vegetationSeed = w.vegetationSeed
  /\ water = ZeroArray(size * size)
  /\ sources = << >>
  /\ waterAtStart = water
  /\ scratchByLength = << >>
  /\ simParams = DefaultParams
  /\ toolMode = "raise"
  /\ brush = DefaultBrush
  /\ call = IdleCall
  /\ steps = 0
  /\ version = WORLD_VERSION
  /\ time = Zero
  /\ slots \in {<< >>, [slot \in {1} |-> serializeWorld(SavedWorld(size, terrain))]}
  /\ sourceIdCounter = Len(sources) + 1
  /\ LoopInit
  /\ UiInit

NextHumid ==
  \/ InLoopRun /\ \E deltaSeconds \in HumidDeltaSet : Animate(deltaSeconds)
  \/ InLoopRun /\ \E slot \in SlotSet : OnSave(slot)
  \/ InLoopRun /\ \E slot \in SlotSet : OnLoad(slot)

SpecHumid == InitHumid /\ [][NextHumid]_vars

\* the passes of the frame just animated
FramePasses == IF call.op = "animate" THEN call.passes ELSE << >>

\* the number, counted since start or since the last installing load, of the
\* updateHumidity call that pass k of the frame made
CallNumber(k) == call.callsBefore + k

\* C25: updateHumidity runs the diffusion pass on the calls whose number since start or
\* since the last load is a multiple of four and on no other call; a diffusion pass
\* leaves the buffer it read as the per-cell update left it, and the buffer it wrote is
\* the current buffer afterwards; without a diffusion pass the updated buffer stays the
\* current one and the scratch buffer is not written; so the current buffer is always
\* the one written last
C25_DiffusionEveryFourthCall ==
  /\ humidityStepCounter = humidityCalls
  /\ \A k \in DOMAIN FramePasses :
       LET pass == FramePasses[k].humidity
           before == FramePasses[k].humidityBefore
       IN /\ pass.diffused <=> (CallNumber(k) % HUMIDITY_DIFFUSION_STEPS = 0)
          /\ IF pass.diffused
             THEN /\ pass.humidityMap = pass.written
                  /\ pass.humidityScratch = pass.updated
                  /\ \A i \in DOMAIN pass.written :
                       pass.written[i] = diffusedCell(pass.updated, size, i)
             ELSE /\ pass.humidityMap = pass.updated
                  /\ pass.humidityScratch = before.humidityScratch
  /\ FramePasses # << >> =>
       humidityMap = FramePasses[Len(FramePasses)].humidity.humidityMap

\* the eighth call since start ran a diffusion pass that changed a cell
C25_Witness ==
  /\ call.op = "animate"
  /\ call.callsBefore = 4
  /\ Len(call.passes) = 4
  /\ call.passes[4].humidity.diffused
  /\ call.passes[4].humidity.written # call.passes[4].humidity.updated
  /\ ~call.passes[3].humidity.diffused

\* the fourth call since a load ran a diffusion pass, the sixth call since start
C25_AfterLoadWitness ==
  /\ call.op = "animate"
  /\ call.callsBefore = 0
  /\ steps = 4
  /\ Len(call.passes) = 4
  /\ call.passes[4].humidity.diffused
  /\ call.timeBefore = Rat(1, 30)

InUnitRange(buffer) == \A i \in DOMAIN buffer : buffer[i] >= 0 /\ buffer[i] <= FixedOne

\* C26: every value of the current humidity buffer lies in [0, 1], in every state: as
\* seeded, after the per-cell update of every pass, after every diffusion pass and
\* swap, and after a load
C26_HumidityInUnitRange ==
  /\ InUnitRange(humidityMap)
  /\ \A k \in DOMAIN FramePasses :
       /\ InUnitRange(FramePasses[k].humidity.updated)
       /\ InUnitRange(FramePasses[k].humidity.humidityMap)

\* a load seeded a cell under water half a unit deep with humidity 1, and a frame
\* updated it
C26_Witness ==
  /\ call.op = "animate"
  /\ Len(call.passes) = 1
  /\ \E i \in DOMAIN humidityMap :
       /\ call.passes[1].humidityBefore.humidityMap[i] = FixedOne
       /\ RGt(call.waterBefore[i], Rat(5, 16))
       /\ humidityMap[i] = FixedOne

\* a diffusion pass moved the cells of a world with high and low ground toward each other
C26_DiffusionWitness ==
  /\ call.op = "animate"
  /\ \E k \in DOMAIN call.passes :
       /\ call.passes[k].humidity.diffused
       /\ \E i, j \in DOMAIN humidityMap :
            /\ call.passes[k].humidity.updated[i] < call.passes[k].humidity.written[i]
            /\ call.passes[k].humidity.updated[j] > call.passes[k].humidity.written[j]


----------------------------------------------------------------------------
(* Water sources under toggles                                             *)

\* the cells pressed: the centre of the 5x5 grid and the eight cells around it
TogglePressSet == {<<x, y>> : x, y \in 1 .. 3}

\* the world as createInitialWorld leaves it: no water, time 0, the sources
\* generateInitialSources placed
InitToggle == InitStore /\ size = 5 /\ time = Zero /\ AllZero(water)

NextToggle == \E c \in TogglePressSet : ToggleWaterSource(c[1], c[2])

SpecToggle == InitToggle /\ [][NextToggle]_vars

\* dx * dx + dy * dy <= 1.5 * 1.5, in quarters
WithinReach(source, x, y) ==
  4 * ((source.x - x) * (source.x - x) + (source.y - y) * (source.y - y)) <= 9

\* C27: a toggle at (x, y) removes the first source within distance 1.5 of (x, y) when
\* there is one, and otherwise appends one new active source at (x, y); and from the
\* initial world, after any sequence of toggles, no two sources lie within distance 1.5
\* of each other
C27_TogglesKeepSourcesApart ==
  /\ \A i, j \in DOMAIN sources :
       i # j => ~WithinReach(sources[i], sources[j].x, sources[j].y)
  /\ call.op = "toggleWaterSource" =>
       LET before == call.sourcesBefore
           inReach == {i \in DOMAIN before : WithinReach(before[i], call.x, call.y)}
       IN IF inReach # {}
          THEN /\ Len(sources) = Len(before) - 1
               /\ \E first \in inReach :
                    /\ \A i \in inReach : first <= i
                    /\ \A i \in DOMAIN sources :
                         sources[i] = IF i < first THEN before[i] ELSE before[i + 1]
          ELSE /\ Len(sources) = Len(before) + 1
               /\ \A i \in DOMAIN before : sources[i] = before[i]
               /\ sources[Len(sources)].x = call.x
               /\ sources[Len(sources)].y = call.y
               /\ sources[Len(sources)].active

\* a press diagonally next to a source removed that source and added none
C27_Witness ==
  /\ call.op = "toggleWaterSource"
  /\ \E i \in DOMAIN call.sourcesBefore :
       /\ WithinReach(call.sourcesBefore[i], call.x, call.y)
       /\ call.sourcesBefore[i].x # call.x
       /\ call.sourcesBefore[i].y # call.y
  /\ Len(sources) = Len(call.sourcesBefore) - 1

\* a press two cells from the nearest source added a second source
C27_AddWitness ==
  /\ call.op = "toggleWaterSource"
  /\ Len(sources) = 2
  /\ Len(call.sourcesBefore) = 1
  /\ sources[2].x = sources[1].x + 2
  /\ sources[2].y = sources[1].y


----------------------------------------------------------------------------
(* Vegetation: the renderer (scene.ts, SceneView.updateVegetation) and the *)
(* sampler of the debug readout (main.ts, sampleVegetationCellDiagnostics) *)
(* Heights, depths, humidity and noise are held on the scale of FixedOne.  *)

MAX_CANOPY_TREES == 6800
MAX_SHRUBS == 9600
MAX_GRASS_PATCHES == 14000

\* the product v * n / d of a fixed-point v, rounded down, in two parts
MulFrac(v, n, d) == (v \div d) * n + ((v % d) * n) \div d

\* a height or depth of the world on the fixed-point scale
Fx(v) == IF v[2] <= 0 THEN NaNFixed ELSE ToFixed(v)

\* scene.ts lines 1302-1305 (the renderer's hash2D); x and y are integers, seed an integer
sceneHash2D(x, y, seed) ==
  LET scaled[s \in Int] == (s * 43758 + (s * 5453) \div 10000) % FixedOne
  IN scaled[MathSin(MulFrac(x * FixedOne + seed, 129898, 10000)
                    + MulFrac(y * FixedOne - seed, 78233, 1000))]

\* main.ts lines 140-143
hashCellNoise(x, y, seed) ==
  LET scaled[s \in Int] == (s * 43758 + (s * 5453) \div 10000) % FixedOne
  IN scaled[MathSin(MulFrac(x * FixedOne + seed, 129898, 10000)
                    + MulFrac(y * FixedOne - seed, 78233, 1000))]

\* scene.ts lines 1422-1430
computeSlope(t, sz, x, y) ==
  LET left == Fx(t[toIndex(sz, Max(0, x - 1), y)])
      right == Fx(t[toIndex(sz, Min(sz - 1, x + 1), y)])
      down == Fx(t[toIndex(sz, x, Max(0, y - 1))])
      up == Fx(t[toIndex(sz, x, Min(sz - 1, y + 1))])
      dx == (right - left) \div 2
      dy == (up - down) \div 2
  IN ISqrt(dx * dx + dy * dy)

\* core/terrain.ts lines 51-68
computeSlopeAt(t, sz, x, y) ==
  IF ~inBounds(sz, x, y) THEN 0
  ELSE LET xm == Max(0, x - 1)
           xp == Min(sz - 1, x + 1)
           ym == Max(0, y - 1)
           yp == Min(sz - 1, y + 1)
           left == Fx(t[toIndex(sz, xm, y)])
           right == Fx(t[toIndex(sz, xp, y)])
           down == Fx(t[toIndex(sz, x, ym)])
           up == Fx(t[toIndex(sz, x, yp)])
           dx == (right - left) \div 2
           dy == (up - down) \div 2
       IN ISqrt(dx * dx + dy * dy)

\* THREE.MathUtils.clamp(value, min, max)
clampFixed(value, lo, hi) == Max(lo, Min(hi, value))

\* main.ts lines 516-518: currentVegetationVitality()
currentVegetationVitality ==
  saturateFixed(Dec(34, 100) + FMul(ToFixed(climateState.daylight), Dec(46, 100))
                  + FMul(ToFixed(climateState.rainIntensity), Dec(2, 10)))

Max5(a, b, c, d, e) == Max(a, Max(b, Max(c, Max(d, e))))

\* main.ts lines 145-279
sampleVegetationCellDiagnostics(sz, t, w, humidity, seed, vitality, x, y) ==
  IF x <= 0 \/ y <= 0 \/ x >= sz - 1 \/ y >= sz - 1
  THEN [status |-> "edge cell (vegetation disabled)", selected |-> "none", slope |-> 0,
        moisture |-> 0, fertility |-> 0]
  ELSE
    LET index == y * sz + x
        height == Fx(t[index])
        wetness == Fx(w[index])
        moisture == humidity[index]
        slope == computeSlopeAt(t, sz, x, y)
        left == Fx(t[y * sz + (x - 1)])
        right == Fx(t[y * sz + (x + 1)])
        up == Fx(t[(y + 1) * sz + x])
        down == Fx(t[(y - 1) * sz + x])
        neighborAvg == FMul(left + right + up + down, Dec(25, 100))
        valley == saturateFixed(FDiv(neighborAvg - height + Dec(8, 100), Dec(16, 10)))
        ridge == saturateFixed(FDiv(height - neighborAvg - Dec(12, 100), Dec(15, 10)))
        nearbyWetness == Max5(wetness, Fx(w[y * sz + (x - 1)]), Fx(w[y * sz + (x + 1)]),
                              Fx(w[(y - 1) * sz + x]), Fx(w[(y + 1) * sz + x]))
        riparian == saturateFixed(FMul(nearbyWetness, Dec(42, 10)))
        altitude01 == saturateFixed(FDiv(height + 8 * FixedOne, 23 * FixedOne))
        clampedVitality == saturateFixed(vitality)
        fertility == saturateFixed(FMul(moisture, Dec(44, 100)) + FMul(riparian, Dec(3, 10))
                                     + FMul(valley, Dec(24, 100))
                                     + FMul(clampedVitality, Dec(2, 10))
                                     - FMul(slope, Dec(37, 100)) - FMul(ridge, Dec(22, 100)))
        densityNoise == hashCellNoise(x + 17, y - 13, seed + 11)
        densityLimit == FMul(fertility, Dec(95, 100))
        gate == IF height < 0 - Dec(75, 10) \/ height > 14 * FixedOne
                  THEN "blocked: altitude range"
                ELSE IF wetness > Dec(62, 100) THEN "blocked: underwater"
                ELSE IF moisture < Dec(6, 100) THEN "blocked: low humidity"
                ELSE IF slope > Dec(12, 10) THEN "blocked: slope too steep"
                ELSE IF fertility < Dec(8, 100) THEN "blocked: low fertility"
                ELSE IF densityNoise > densityLimit THEN "blocked: density noise gate"
                ELSE "spawn candidate"
        canopySuitability ==
          FMul(saturateFixed(
                 FMul(FMul(FMul(FixedOne - FMul(Abs(altitude01 - Dec(42, 100)), Dec(19, 10)),
                                FixedOne - FMul(slope, Dec(85, 100))),
                           Dec(5, 10) + FMul(moisture, Dec(5, 10))),
                      Dec(62, 100) + FMul(valley, Dec(3, 10)))), fertility)
        shrubSuitability ==
          FMul(saturateFixed(
                 FMul(FMul(FMul(Dec(7, 10) + FMul(valley, Dec(2, 10)) + FMul(ridge, Dec(16, 100)),
                                FixedOne - FMul(slope, Dec(55, 100))),
                           Dec(45, 100) + FMul(moisture, Dec(45, 100))
                             + FMul(riparian, Dec(2, 10))),
                      FixedOne - FMul(Max(0, altitude01 - Dec(82, 100)), Dec(13, 10)))),
               fertility)
        grassSuitability ==
          FMul(saturateFixed(
                 FMul(FMul(Dec(65, 100) + FMul(altitude01, Dec(5, 10))
                             + FMul(ridge, Dec(24, 100)),
                           FixedOne - FMul(slope, Dec(32, 100))),
                      Dec(38, 100) + FMul(moisture, Dec(4, 10))
                        + FMul(clampedVitality, Dec(22, 100)))), fertility)
        canopyWeight == FMul(canopySuitability, Dec(92, 100))
        shrubWeight == FMul(shrubSuitability, Dec(108, 100))
        grassWeight == FMul(grassSuitability, Dec(135, 100))
        totalWeight == canopyWeight + shrubWeight + grassWeight
        pickNoise == hashCellNoise(x - 31, y + 47, seed + 211)
        pick == FMul(pickNoise, totalWeight)
        selected == IF totalWeight >= Dec(4, 100)
                    THEN IF pick < canopyWeight THEN "canopy"
                         ELSE IF pick < canopyWeight + shrubWeight THEN "shrub"
                         ELSE "grass"
                    ELSE "none"
        status == IF gate # "spawn candidate" THEN gate
                  ELSE IF totalWeight >= Dec(4, 100)
                    THEN CASE selected = "canopy" -> "spawn: canopy"
                           [] selected = "shrub" -> "spawn: shrub"
                           [] OTHER -> "spawn: grass"
                  ELSE "blocked: low suitability"
    IN [status |-> status, selected |-> selected, slope |-> slope, moisture |-> moisture,
        fertility |-> fertility]

underwater_Never(wetness) == FALSE

\* scene.ts line 2287: wetness > 0.62
underwater(wetness) == wetness > Dec(62, 100)

\* scene.ts lines 2283-2392: the body of the loop for the cell (x, y), given the numbers of
\* plants placed so far; the kind it goes on to place, "none" where it continues
vegetationAt(sz, t, w, humidity, seed, vitality, x, y, counts) ==
  LET index == toIndex(sz, x, y)
      height == Fx(t[index])
      wetness == Fx(w[index])
      moisture == humidity[index]
      clampedVitality == clampFixed(vitality, 0, FixedOne)
      slope == computeSlope(t, sz, x, y)
      left == Fx(t[toIndex(sz, x - 1, y)])
      right == Fx(t[toIndex(sz, x + 1, y)])
      up == Fx(t[toIndex(sz, x, y + 1)])
      down == Fx(t[toIndex(sz, x, y - 1)])
      neighborAvg == FMul(left + right + up + down, Dec(25, 100))
      valley == clampFixed(FDiv(neighborAvg - height + Dec(8, 100), Dec(16, 10)), 0, FixedOne)
      ridge == clampFixed(FDiv(height - neighborAvg - Dec(12, 100), Dec(15, 10)), 0, FixedOne)
      nearbyWetness == Max5(wetness, Fx(w[toIndex(sz, x - 1, y)]), Fx(w[toIndex(sz, x + 1, y)]),
                            Fx(w[toIndex(sz, x, y - 1)]), Fx(w[toIndex(sz, x, y + 1)]))
      riparian == clampFixed(FMul(nearbyWetness, Dec(42, 10)), 0, FixedOne)
      altitude01 == clampFixed(FDiv(height + 8 * FixedOne, 23 * FixedOne), 0, FixedOne)
      fertility == clampFixed(FMul(moisture, Dec(44, 100)) + FMul(riparian, Dec(3, 10))
                                + FMul(valley, Dec(24, 100))
                                + FMul(clampedVitality, Dec(2, 10))
                                - FMul(slope, Dec(37, 100)) - FMul(ridge, Dec(22, 100)),
                              0, FixedOne)
      densityNoise == sceneHash2D(x + 17, y - 13, seed + 11)
      tallSuitability ==
        FMul(clampFixed(
               FMul(FMul(FMul(FixedOne - FMul(Abs(altitude01 - Dec(42, 100)), Dec(19, 10)),
                              FixedOne - FMul(slope, Dec(85, 100))),
                         Dec(5, 10) + FMul(moisture, Dec(5, 10))),
                    Dec(62, 100) + FMul(valley, Dec(3, 10))), 0, FixedOne), fertility)
      shrubSuitability ==
        FMul(clampFixed(
               FMul(FMul(FMul(Dec(7, 10) + FMul(valley, Dec(2, 10)) + FMul(ridge, Dec(16, 100)),
                              FixedOne - FMul(slope, Dec(55, 100))),
                         Dec(45, 100) + FMul(moisture, Dec(45, 100))
                           + FMul(riparian, Dec(2, 10))),
                    FixedOne - FMul(Max(0, altitude01 - Dec(82, 100)), Dec(13, 10))),
               0, FixedOne), fertility)
      grassSuitability ==
        FMul(clampFixed(
               FMul(FMul(Dec(65, 100) + FMul(altitude01, Dec(5, 10))
                           + FMul(ridge, Dec(24, 100)),
                         FixedOne - FMul(slope, Dec(32, 100))),
                    Dec(38, 100) + FMul(moisture, Dec(4, 10))
                      + FMul(clampedVitality, Dec(22, 100))), 0, FixedOne), fertility)
      tallWeight == FMul(tallSuitability, Dec(92, 100))
      shrubWeight == FMul(shrubSuitability, Dec(108, 100))
      grassWeight == FMul(grassSuitability, Dec(135, 100))
      totalWeight == tallWeight + shrubWeight + grassWeight
      pickNoise == sceneHash2D(x - 31, y + 47, seed + 211)
      pick == FMul(pickNoise, totalWeight)
      picked == IF pick < tallWeight THEN "canopy"
                ELSE IF pick < tallWeight + shrubWeight THEN "shrub"
                ELSE "grass"
      full(kind) == \/ kind = "canopy" /\ counts.canopy >= MAX_CANOPY_TREES
                    \/ kind = "shrub" /\ counts.shrub >= MAX_SHRUBS
                    \/ kind = "grass" /\ counts.grass >= MAX_GRASS_PATCHES
      selected == IF picked = "canopy" /\ full("canopy")
                    THEN IF shrubWeight >= grassWeight THEN "shrub" ELSE "grass"
                  ELSE IF picked = "shrub" /\ full("shrub")
                    THEN IF tallWeight >= grassWeight THEN "canopy" ELSE "grass"
                  ELSE IF picked = "grass" /\ full("grass")
                    THEN IF tallWeight >= shrubWeight THEN "canopy" ELSE "shrub"
                  ELSE picked
  IN IF height < 0 - Dec(75, 10) \/ height > 14 * FixedOne \/ underwater(wetness) THEN "none"
     ELSE IF moisture < Dec(6, 100) THEN "none"
     ELSE IF slope > Dec(12, 10) THEN "none"
     ELSE IF fertility < Dec(8, 100) THEN "none"
     ELSE IF densityNoise > FMul(fertility, Dec(95, 100)) THEN "none"
     ELSE IF totalWeight < Dec(4, 100) THEN "none"
     ELSE IF full(selected) THEN "none"
     ELSE selected

\* scene.ts lines 2281-2282: the loops over y and x from 1 to size - 2, from the k-th
\* interior cell on; `placed` maps the cells visited to what was placed on them
RECURSIVE vegetationLoop(_, _, _, _, _, _, _, _, _)
vegetationLoop(sz, t, w, humidity, seed, vitality, k, counts, placed) ==
  IF sz < 3 \/ k >= (sz - 2) * (sz - 2) THEN placed
  ELSE LET x == 1 + (k % (sz - 2))
           y == 1 + (k \div (sz - 2))
       IN CHOOSE result \in
            { vegetationLoop(sz, t, w, humidity, seed, vitality, k + 1,
                             [counts EXCEPT ![kind] = IF kind = "none" THEN 0 ELSE @ + 1],
                             [c \in DOMAIN placed |->
                                IF c = toIndex(sz, x, y) THEN kind ELSE placed[c]] @@ << >>) :
                kind \in {vegetationAt(sz, t, w, humidity, seed, vitality, x, y, counts)} }
            : TRUE

\* SceneView.updateVegetation(terrain, water, humidity, seed, vitality), scene.ts lines
\* 2261-2520: the kind of plant placed on every cell, "none" where none is placed
updateVegetation(sz, t, w, humidity, seed, vitality) ==
  vegetationLoop(sz, t, w, humidity, seed, vitality, 0,
                 [canopy |-> 0, shrub |-> 0, grass |-> 0, none |-> 0],
                 [c \in Cells(sz) |-> "none"] @@ << >>)

\* worlds the renderer and the sampler are given: gentle and steep ground, ground above
\* the altitude range, dry cells, damp cells and cells under water
VegWorldSet ==
  { [size |-> 5, terrain |-> PatternArray(5, 7, 13, -4, 2), water |-> PatternArray(5, 3, 4, 0, 8)],
    [size |-> 5, terrain |-> PatternArray(5, 5, 11, 9, 1), water |-> ZeroArray(25)],
    [size |-> 5, terrain |-> PatternArray(5, 3, 7, 0, 4), water |-> ZeroArray(25)],
    [size |-> 4, terrain |-> [i \in Cells(4) |-> Num(2)] @@ << >>,
     water |-> PatternArray(4, 3, 4, 0, 4)] }

VegSeedSet == {Zero, Num(987), Num(7500000)}

InitVeg ==
  /\ generatedTerrains = << >>
  /\ \E w \in VegWorldSet :
       /\ size = w.size
       /\ terrain = w.terrain
       /\ water = w.water
  /\ terrainSeed = Num(424242)
  /\ vegetationSeed \in VegSeedSet
  /\ sources = << >>
  /\ waterAtStart = water
  /\ scratchByLength = << >>
  /\ simParams = DefaultParams
  /\ toolMode = "raise"
  /\ brush = DefaultBrush
  /\ call = IdleCall
  /\ steps = 0
  /\ HostInit

\* animate, lines 1059-1069: scene.updateVegetation on the live world
UpdateVegetation ==
  /\ call' = [op |-> "updateVegetation",
              placed |-> updateVegetation(size, terrain, water, humidityMap,
                                          Whole(vegetationSeed), currentVegetationVitality)]
  /\ UNCHANGED <<hostVars, size, terrain, water, sources, terrainSeed, vegetationSeed,
                 generatedTerrains, scratchByLength, simParams, waterAtStart, toolMode,
                 brush, steps>>

\* updateDebugReadout, lines 577-585: the sampler on the hovered cell
SampleVegetation(x, y) ==
  /\ call' = [op |-> "sampleVegetation", x |-> x, y |-> y,
              result |-> sampleVegetationCellDiagnostics(size, terrain, water, humidityMap,
                                                         Whole(vegetationSeed),
                                                         currentVegetationVitality, x, y)]
  /\ UNCHANGED <<hostVars, size, terrain, water, sources, terrainSeed, vegetationSeed,
                 generatedTerrains, scratchByLength, simParams, waterAtStart, toolMode,
                 brush, steps>>

NextVeg ==
  \/ UpdateVegetation
  \/ \E x, y \in 0 .. (size - 1) : SampleVegetation(x, y)
  \/ InLoopRun /\ Animate(Zero)

SpecVeg == InitVeg /\ [][NextVeg]_vars

PlantKinds == {"canopy", "shrub", "grass"}

SpawnStatus(kind) ==
  CASE kind = "canopy" -> "spawn: canopy"
    [] kind = "shrub" -> "spawn: shrub"
    [] OTHER -> "spawn: grass"

IsEdgeCell(x, y) == x <= 0 \/ y <= 0 \/ x >= size - 1 \/ y >= size - 1

\* the renderer's plant on a cell and the sampler's report for it say the same
SameDecision(x, y, plant, report) ==
  /\ \A kind \in PlantKinds : (plant = kind) <=> (report.status = SpawnStatus(kind))
  /\ IsEdgeCell(x, y) =>
       plant = "none" /\ report.status = "edge cell (vegetation disabled)"

Placed(kind) ==
  call.op = "updateVegetation" /\ \E c \in DOMAIN call.placed : call.placed[c] = kind

Reported(status) == call.op = "sampleVegetation" /\ call.result.status = status

C28_SpawnWitness == Reported("spawn: canopy")

\* the sampler reported a cell under water, and one the density gate closed
C28_UnderwaterWitness == Reported("blocked: underwater")
C28_DensityWitness == Reported("blocked: density noise gate")

----------------------------------------------------------------------------
(* Pointer input  (InputController, lines 110-150 and 229-236; main.ts,    *)
(* onPaint, lines 919-932)                                                 *)

\* toggleWaterSource(x, y), main.ts lines 990-1010, on the source list and the counter
toggleWaterSource(list, counter, x, y) ==
  LET existingIndex == findNearbySourceIndex(list, x, y)
  IN IF existingIndex > 0
     THEN [sources |-> Splice(list, existingIndex), sourceIdCounter |-> counter]
     ELSE [sources |-> Append(list, Source(SourceId(counter), x, y, DefaultSourceRate, TRUE)),
           sourceIdCounter |-> counter + 1]

\* onPaint(x, y, isInitialStroke), main.ts lines 919-932; `event` names the pointer event
\* that led to it.  A stroke is followed on terrain heights k/d with d <= MaxDenominator.
onPaint(event, x, y, isInitialStroke) ==
  IF toolMode = "waterSource"
  THEN IF isInitialStroke
       THEN /\ Len(sources) < MaxSources
            /\ \E toggled \in {toggleWaterSource(sources, sourceIdCounter, x, y)} :
                 /\ sources' = toggled.sources
                 /\ sourceIdCounter' = toggled.sourceIdCounter
            /\ call' = [op |-> event, x |-> x, y |-> y, led |-> "toggleWaterSource",
                        interactionMode |-> interactionMode, photoMode |-> photoMode,
                        wasPainting |-> isPainting]
            /\ UNCHANGED terrain
       ELSE /\ call' = [op |-> event, x |-> x, y |-> y, led |-> "nothing",
                        interactionMode |-> interactionMode, photoMode |-> photoMode,
                        wasPainting |-> isPainting]
            /\ UNCHANGED <<terrain, sources, sourceIdCounter>>
  ELSE /\ Exact(terrain)
       /\ terrain' = applyBrush(size, terrain, Num(x), Num(y), toolMode, brush).terrain
       /\ call' = [op |-> event, x |-> x, y |-> y, led |-> "applyBrush",
                   interactionMode |-> interactionMode, photoMode |-> photoMode,
                   wasPainting |-> isPainting]
       /\ UNCHANGED <<sources, sourceIdCounter>>

\* what a pointer event leaves alone besides the terrain, the sources and their counter
pointerUnchanged ==
  <<size, water, terrainSeed, vegetationSeed, generatedTerrains, scratchByLength, simParams,
    waterAtStart, toolMode, brush, version, time, slots, uiVars, frameVars>>

\* onPointerDown with the left button over the cell (x, y), lines 110-123
OnPointerDown(x, y) ==
  /\ IF interactionMode = "camera"
     THEN /\ call' = [op |-> "pointerDown", x |-> x, y |-> y, led |-> "nothing",
                      interactionMode |-> interactionMode, photoMode |-> photoMode,
                      wasPainting |-> isPainting]
          /\ UNCHANGED <<isPainting, terrain, sources, sourceIdCounter>>
     ELSE /\ isPainting' = TRUE
          /\ onPaint("pointerDown", x, y, TRUE)
  /\ steps' = steps + 1
  /\ UNCHANGED pointerUnchanged

\* onPointerMove over the cell (x, y), lines 125-138
OnPointerMove(x, y) ==
  /\ IF ~isPainting
     THEN /\ call' = [op |-> "pointerMove", x |-> x, y |-> y, led |-> "nothing",
                      interactionMode |-> interactionMode, photoMode |-> photoMode,
                      wasPainting |-> isPainting]
          /\ UNCHANGED <<terrain, sources, sourceIdCounter>>
     ELSE onPaint("pointerMove", x, y, FALSE)
  /\ steps' = steps + 1
  /\ UNCHANGED <<isPainting, pointerUnchanged>>

\* onPointerUp with the left button, lines 140-150
OnPointerUp ==
  /\ isPainting' = FALSE
  /\ call' = [op |-> "pointerUp", led |-> "nothing", interactionMode |-> interactionMode,
              photoMode |-> photoMode, wasPainting |-> isPainting]
  /\ steps' = steps + 1
  /\ UNCHANGED <<terrain, sources, sourceIdCounter, pointerUnchanged>>

\* the cells the pointer is over
PointerCells == {<<0, 0>>, <<1, 1>>}

NextPointer ==
  \/ InLoopRun /\ \E c \in PointerCells : OnPointerDown(c[1], c[2])
  \/ InLoopRun /\ \E c \in PointerCells : OnPointerMove(c[1], c[2])
  \/ InLoopRun /\ OnPointerUp
  \/ InLoopRun /\ \E key \in KeySet : KeyDown(key)

SpecPointer == InitApp /\ [][NextPointer]_vars

PointerEvents == {"pointerDown", "pointerMove", "pointerUp"}

\* C29: a pointer event leads to applyBrush or toggleWaterSource only while the
\* interaction mode is edit; in camera mode and in photo mode no pointer event does,
\* whatever key events came between the pointer events of a drag
C29_PointerPaintsOnlyInEditMode ==
  (call.op \in PointerEvents /\ call.led # "nothing") =>
    (call.interactionMode = "edit" /\ ~call.photoMode)

\* what the controller does guarantee: a pointer-down leads to applyBrush or
\* toggleWaterSource only in edit mode, toggleWaterSource is reached from a pointer-down
\* only, and a pointer-move leads to applyBrush only during a drag
PointerPaintsInEditOrDrag ==
  (call.op \in PointerEvents /\ call.led # "nothing") =>
    \/ call.op = "pointerDown" /\ call.interactionMode = "edit" /\ ~call.photoMode
    \/ call.op = "pointerMove" /\ call.wasPainting /\ call.led = "applyBrush"

\* a pointer-move of a drag painted after the 0 key had switched to camera mode
PaintedInCameraMode ==
  /\ call.op = "pointerMove"
  /\ call.led = "applyBrush"
  /\ call.interactionMode = "camera"
  /\ ~call.photoMode

\* a pointer-move of a drag painted after the P key had switched to photo mode
PaintedInPhotoMode ==
  /\ call.op = "pointerMove"
  /\ call.led = "applyBrush"
  /\ call.photoMode


----------------------------------------------------------------------------
(* Loads that fail                                                         *)

\* onLoad when IndexedDB fails (openDb or the get request rejects, storage lines 166-184):
\* the catch block reports the error
OnLoadStorageError(slot) ==
  /\ call' = [op |-> "onLoad", slot |-> slot, installed |-> FALSE, storageError |-> TRUE,
              timeBefore |-> time, worldBefore |-> World, humidityBefore |-> Humidity,
              sourceIdCounterBefore |-> sourceIdCounter]
  /\ steps' = steps + 1
  /\ UNCHANGED <<hostVars, size, terrain, water, sources, terrainSeed, vegetationSeed,
                 generatedTerrains, scratchByLength, simParams, waterAtStart, toolMode,
                 brush>>

\* what slot 1 holds at start-up: a world of the live size or of another size that the
\* program saved, bytes that are not JSON, a payload without its time field
ReloadSlotSet(sz, t) ==
  { serializeWorld(SavedWorld(sz, t)),
    serializeWorld(SavedWorld(3 - sz, IF sz = 1 THEN ZeroArray(4) ELSE ZeroArray(1))),
    NotJson,
    JObj(Without(GoodFields, "time")) }

InitReload ==
  /\ generatedTerrains = << >>
  /\ \E w \in LoopWorldSet :
       /\ size = w.size
       /\ terrain = w.terrain
       /\ terrainSeed = w.terrainSeed
       /\ vegetationSeed = w.vegetationSeed
  /\ water = ZeroArray(size * size)
  /\ sources = << >>
  /\ waterAtStart = water
  /\ scratchByLength = << >>
  /\ simParams = DefaultParams
  /\ toolMode = "waterSource"
  /\ brush = DefaultBrush
  /\ call = IdleCall
  /\ steps = 0
  /\ version = WORLD_VERSION
  /\ time = Zero
  /\ \E data \in ReloadSlotSet(size, terrain) : slots = [slot \in {1} |-> data]
  /\ sourceIdCounter = Len(sources) + 1
  /\ LoopInit
  /\ UiInit

NextReload ==
  \/ InLoopRun /\ \E deltaSeconds \in {Rat(1, 60), Rat(1, 30)} : Animate(deltaSeconds)
  \/ InLoopRun /\ ToggleWaterSource(LoopPress[1], LoopPress[2])
  \/ InLoopRun /\ \E slot \in SlotSet : OnLoad(slot)
  \/ InLoopRun /\ \E slot \in SlotSet : OnLoadStorageError(slot)

SpecReload == InitReload /\ [][NextReload]_vars

\* the load just made went through: no storage error, the slot held a payload that
\* deserializeWorld accepts, and the saved world has the size of the live world
LoadSucceeded ==
  /\ "storageError" \notin DOMAIN call
  /\ call.slot \in DOMAIN slots
  /\ deserializeWorld(slots[call.slot]).ok
  /\ deserializeWorld(slots[call.slot]).value.size = call.worldBefore.size

\* C30: a load that finds an empty slot, a world of another size, or a storage or
\* deserialization error leaves the world, the humidity buffers, the humidity step
\* counter and the source id counter as they were; a load that succeeds replaces all of
\* them: the world is the saved one, the humidity is seeded from it, the scratch buffer
\* is cleared, the step counter is 0 and the source id counter follows the saved sources
C30_FailedLoadChangesNothing ==
  call.op = "onLoad" =>
    IF LoadSucceeded
    THEN /\ World = deserializeWorld(slots[call.slot]).value
         /\ humidityMap = seedHumidityFromWorld(terrain, water)
         /\ \A i \in DOMAIN humidityScratch : humidityScratch[i] = 0
         /\ humidityStepCounter = 0
         /\ sourceIdCounter = Len(sources) + 1
    ELSE /\ World = call.worldBefore
         /\ Humidity = call.humidityBefore
         /\ sourceIdCounter = call.sourceIdCounterBefore

FailedLoad == call.op = "onLoad" /\ ~LoadSucceeded

\* a world of another size was refused after frames had run and a source had been added
C30_Witness ==
  /\ FailedLoad
  /\ call.slot \in DOMAIN slots
  /\ deserializeWorld(slots[call.slot]).ok
  /\ humidityStepCounter > 0
  /\ sourceIdCounter > 1

\* the other ways a load fails, and a load that succeeds after frames have run
C30_EmptySlotWitness == FailedLoad /\ call.slot \notin DOMAIN slots /\ humidityStepCounter > 0
C30_BadPayloadWitness ==
  /\ FailedLoad
  /\ call.slot \in DOMAIN slots
  /\ ~deserializeWorld(slots[call.slot]).ok
  /\ humidityStepCounter > 0
C30_StorageErrorWitness == FailedLoad /\ "storageError" \in DOMAIN call /\ sourceIdCounter > 1
C30_SuccessWitness ==
  /\ call.op = "onLoad"
  /\ LoadSucceeded
  /\ call.humidityBefore.humidityStepCounter > 0
  /\ call.worldBefore # World
  /\ call.humidityBefore.humidityMap # humidityMap

====
